---- MODULE Spec2Model ----
(***************************************************************************)
(* A model of the opencode-worktree plugin: the branch validator, the      *)
(* SQLite session state store (sessions and the singleton pending          *)
(* operation), the single-repo tools with the session.idle delete flow,    *)
(* and the multi-repo set orchestrator.                                    *)
(*                                                                         *)
(* Strings that the code inspects character by character (branch names)    *)
(* are sequences of character codes; strings it only passes around are     *)
(* TLA+ strings.                                                           *)
(***************************************************************************)
EXTENDS Integers, Sequences, FiniteSets, TLC

(***************************************************************************)
(* Bounds of the model.                                                    *)
(***************************************************************************)
\* session.idle events delivered in one behaviour
MaxIdleEvents == 2
\* worktree_delete tool calls in one behaviour
MaxDeleteCalls == 2
\* createWorktreeSet / removeWorktreeSet calls in one behaviour
MaxSetCalls == 2
\* worktree_create tool calls that reach git in one behaviour
MaxCreates == 2

VARIABLES
    sessions,     \* table sessions: set of rows [id, branch, path]
    pending,      \* table pending_operations: set of rows [id, type, branch, path, session_id]
    lastWarn,     \* the warning logged by the last setPending call, or NoWarn
    lastCall,     \* the last store API call, its argument and whether it committed
    wt,           \* single-repo worktrees on disk: path -> "absent", "clean", "staged", "dirty"
    lost,         \* paths whose uncommitted changes a forced removal discarded
    forks,        \* number of worktree_create calls that recorded a session (each
                  \*   forks one in the plugin that forks sessions)
    commits,      \* the worktree_delete requests in the order their setPendingDelete committed
    idle,         \* the session.idle handler invocations: event number -> handler state
                  \*   (snapshot: "added" after a successful git add, "committed" after
                  \*   a successful commit of it, "failed" once either has failed)
    fx,           \* the side effects of the last tool call
    ret,          \* what the last tool call returned
    disk,         \* workspace directories: path -> [exists, wts], wts the worktree entries
    call,         \* the createWorktreeSet / removeWorktreeSet call in progress
    setCalls,     \* number of set calls made
    term,         \* the openTerminal call: the environment it read, the spawn path it
                  \*   selected, its position in the Linux fallback chain, its result
    dbm,          \* the plugin module's state (db, projectRoot, cleanupRegistered), the
                  \*   handles opened, the handlers registered and the getDb calls in progress
    probe         \* one application of a function of the code: its name, its
                  \*   arguments and, once applied, its result

storeVars == <<sessions, pending, lastWarn, lastCall>>
lifeVars == <<wt, lost, forks, commits, idle>>
callVars == <<fx, ret>>
setVars == <<disk, call, setCalls>>
termVars == <<term>>
dbVars == <<dbm>>
probeVars == <<probe>>
\* the variables of the specifications of single modules and functions
laterVars == <<termVars, dbVars, probeVars>>
notStoreVars == <<lifeVars, callVars, setVars, laterVars>>
notTermVars == <<storeVars, lifeVars, callVars, setVars, dbVars, probeVars>>
notDbVars == <<storeVars, lifeVars, callVars, setVars, termVars, probeVars>>
notProbeVars == <<storeVars, lifeVars, callVars, setVars, termVars, dbVars>>
vars == <<storeVars, lifeVars, callVars, setVars, laterVars>>

(***************************************************************************)
(* Character codes and the branch validator (shared/git.ts).               *)
(***************************************************************************)
Dash == 45
Dot == 46
Slash == 47
AtSign == 64
LeftBrace == 123
MaxControlCode == 31
DelCode == 127
MaxBranchLen == 255

\* the character class [ ~^:?*[\]\\] of the schema's refinement, without the control range
InvalidRefChars == {32, 126, 94, 58, 63, 42, 91, 93, 92}
\* the character class [~^:?*[\]\\;&|`$()] of isValidBranchName
RefAndShellChars == {126, 94, 58, 63, 42, 91, 93, 92, 59, 38, 124, 96, 36, 40, 41}
\* ".lock"
DotLock == <<46, 108, 111, 99, 107>>

StartsWith(s, p) == Len(s) >= Len(p) /\ SubSeq(s, 1, Len(p)) = p
EndsWith(s, p) == Len(s) >= Len(p) /\ SubSeq(s, Len(s) - Len(p) + 1, Len(s)) = p
Includes(s, p) == \E i \in 1..(Len(s) - Len(p) + 1) : SubSeq(s, i, i + Len(p) - 1) = p
IsControl(c) == c <= MaxControlCode \/ c = DelCode

isValidBranchName(name) ==
    /\ \A i \in 1..Len(name) : ~IsControl(name[i])
    /\ \A i \in 1..Len(name) : name[i] \notin RefAndShellChars

\* The checks of branchNameSchema in declaration order: <<passes, message>>.
BranchRules(name) ==
    << <<Len(name) >= 1, "Branch name cannot be empty">>,
       <<Len(name) <= MaxBranchLen, "Branch name too long">>,
       <<~StartsWith(name, <<Dash>>),
         "Branch name cannot start with '-' (prevents option injection)">>,
       <<~StartsWith(name, <<Slash>>) /\ ~EndsWith(name, <<Slash>>),
         "Branch name cannot start or end with '/'">>,
       <<~Includes(name, <<Slash, Slash>>), "Branch name cannot contain '//'">>,
       <<~Includes(name, <<AtSign, LeftBrace>>),
         "Branch name cannot contain '@{' (git reflog syntax)">>,
       <<~Includes(name, <<Dot, Dot>>), "Branch name cannot contain '..'">>,
       <<\A i \in 1..Len(name) : ~IsControl(name[i]) /\ name[i] \notin InvalidRefChars,
         "Branch name contains invalid characters">>,
       <<isValidBranchName(name), "Contains invalid git ref characters">>,
       <<~StartsWith(name, <<Dot>>) /\ ~EndsWith(name, <<Dot>>),
         "Cannot start or end with dot">>,
       <<~EndsWith(name, DotLock), "Cannot end with .lock">> >>

RuleFailed(rule) == ~rule[1]

\* branchNameSchema.safeParse(name).error.issues, as the messages in order
BranchIssues(name) ==
    LET failed == SelectSeq(BranchRules(name), RuleFailed)
    IN  [i \in 1..Len(failed) |-> failed[i][2]]

\* branchNameSchema.safeParse(name).success
branchNameSchema(name) == BranchIssues(name) = <<>>

\* The copy of branchNameSchema in src/plugin/worktree.ts: the same refinements,
\* the length limit declared after the character class.
branchNameSchemaLegacy(name) ==
    /\ Len(name) >= 1
    /\ ~StartsWith(name, <<Dash>>)
    /\ ~StartsWith(name, <<Slash>>) /\ ~EndsWith(name, <<Slash>>)
    /\ ~Includes(name, <<Slash, Slash>>)
    /\ ~Includes(name, <<AtSign, LeftBrace>>)
    /\ ~Includes(name, <<Dot, Dot>>)
    /\ \A i \in 1..Len(name) : ~IsControl(name[i]) /\ name[i] \notin InvalidRefChars
    /\ Len(name) <= MaxBranchLen
    /\ isValidBranchName(name)
    /\ ~StartsWith(name, <<Dot>>) /\ ~EndsWith(name, <<Dot>>)
    /\ ~EndsWith(name, DotLock)

\* The copy of branchNameSchema in the single-file plugin: length, isValidBranchName,
\* "..", leading or trailing dot, ".lock".
branchNameSchemaLocal(name) ==
    /\ Len(name) >= 1
    /\ Len(name) <= MaxBranchLen
    /\ isValidBranchName(name)
    /\ ~Includes(name, <<Dot, Dot>>)
    /\ ~StartsWith(name, <<Dot>>) /\ ~EndsWith(name, <<Dot>>)
    /\ ~EndsWith(name, DotLock)

(***************************************************************************)
(* The session state store (worktree/state.ts).                            *)
(***************************************************************************)
Null == [null |-> TRUE]
SqlNull == [sql |-> "NULL"]
NoWarn == [kind |-> "none"]

\* INSERT OR REPLACE on a table whose primary key is the column id
InsertNoKey(table, row) == table \cup {row}
InsertOrReplace(table, row) == {r \in table : r.id # row.id} \cup {row}

\* z.string().min(1): session ids, branches and paths are sequences, "" is <<>>
NonEmptySeq(v) == v # <<>>

sessionSchema(s) == NonEmptySeq(s.id) /\ NonEmptySeq(s.branch) /\ NonEmptySeq(s.path)
pendingSpawnSchema(p) ==
    NonEmptySeq(p.branch) /\ NonEmptySeq(p.path) /\ NonEmptySeq(p.sessionId)
pendingDeleteSchema(p) == NonEmptySeq(p.branch) /\ NonEmptySeq(p.path)

addSessionKeepFirst(tbl, s) ==
    IF sessionSchema(s) /\ ~\E r \in tbl : r.id = s.id
    THEN tbl \cup {[id |-> s.id, branch |-> s.branch, path |-> s.path]}
    ELSE tbl
addSession(tbl, s) ==
    IF sessionSchema(s)
    THEN InsertOrReplace(tbl, [id |-> s.id, branch |-> s.branch, path |-> s.path])
    ELSE tbl

getSession(tbl, sessionId) ==
    IF sessionId = <<>> THEN Null
    ELSE IF \E r \in tbl : r.id = sessionId
         THEN CHOOSE r \in tbl : r.id = sessionId
         ELSE Null

removeSessionAll(tbl, branch) == IF branch = <<>> THEN tbl ELSE {}
removeSession(tbl, branch) ==
    IF branch = <<>> THEN tbl ELSE {r \in tbl : r.branch # branch}

getPendingSpawn(tbl) ==
    IF \E r \in tbl : r.id = 1 /\ r.type = "spawn"
    THEN LET row == CHOOSE r \in tbl : r.id = 1 /\ r.type = "spawn"
         IN  [branch |-> row.branch, path |-> row.path, sessionId |-> row.session_id]
    ELSE Null

getPendingDeleteAnyType(tbl) ==
    IF \E r \in tbl : r.id = 1
    THEN LET row == CHOOSE r \in tbl : r.id = 1
         IN  [branch |-> row.branch, path |-> row.path]
    ELSE Null

getPendingDelete(tbl) ==
    IF \E r \in tbl : r.id = 1 /\ r.type = "delete"
    THEN LET row == CHOOSE r \in tbl : r.id = 1 /\ r.type = "delete"
         IN  [branch |-> row.branch, path |-> row.path]
    ELSE Null

\* the warning setPendingSpawn logs before it writes
SpawnWarning(tbl, spawn) ==
    IF getPendingSpawn(tbl) # Null
    THEN [kind |-> "replace-spawn", old |-> getPendingSpawn(tbl).branch, new |-> spawn.branch]
    ELSE IF getPendingDelete(tbl) # Null
    THEN [kind |-> "spawn-replaces-delete", old |-> getPendingDelete(tbl).branch]
    ELSE NoWarn

\* the warning setPendingDelete logs before it writes
DeleteWarning(tbl, del) ==
    IF getPendingDelete(tbl) # Null
    THEN [kind |-> "replace-delete", old |-> getPendingDelete(tbl).branch, new |-> del.branch]
    ELSE IF getPendingSpawn(tbl) # Null
    THEN [kind |-> "delete-replaces-spawn", old |-> getPendingSpawn(tbl).branch]
    ELSE NoWarn

setPendingSpawn(tbl, spawn) ==
    IF pendingSpawnSchema(spawn)
    THEN InsertOrReplace(tbl, [id |-> 1, type |-> "spawn", branch |-> spawn.branch,
                               path |-> spawn.path, session_id |-> spawn.sessionId])
    ELSE tbl

setPendingDelete(tbl, del) ==
    IF pendingDeleteSchema(del)
    THEN InsertOrReplace(tbl, [id |-> 1, type |-> "delete", branch |-> del.branch,
                               path |-> del.path, session_id |-> SqlNull])
    ELSE tbl

clearPendingAnyType(tbl) == {r \in tbl : r.id # 1}
clearPendingSpawn(tbl) == {r \in tbl : ~(r.id = 1 /\ r.type = "spawn")}
\* a clear that leaves the stored row in place
clearPendingKeep(tbl) == tbl
clearPendingDelete(tbl) == {r \in tbl : ~(r.id = 1 /\ r.type = "delete")}

(***************************************************************************)
(* The single-repo tools and the session.idle delete flow                  *)
(* (plugin/worktree.ts).  Every plugin instance of one project opens the   *)
(* same store, so tool calls and event handlers of different sessions      *)
(* interleave at every await.                                              *)
(***************************************************************************)
ProjectId == "project"

\* path.join(home, ".local", "share", "opencode", "worktree", projectId, branch)
getWorktreePath(branch) == <<"worktree", ProjectId, branch>>

\* "f", "a/b" and ".."
LifeBranches == {<<102>>, <<97, Slash, 98>>, <<Dot, Dot>>}
\* no base branch, "m" and "-m"
LifeBases == {<<>>, <<109>>, <<Dash, 109>>}
LifePaths == {getWorktreePath(b) : b \in {n \in LifeBranches : branchNameSchema(n)}}

MainSession == <<"ses", 0>>
ForkedId(n) == <<"ses", n>>
\* the sessions that exist: the one the plugin was started in and the forked ones
LiveSessionIds == {MainSession} \cup {ForkedId(n) : n \in 1..forks}

IdleNew ==
    [pc |-> "new", session |-> <<>>, pd |-> Null, req |-> 0, snapshot |-> "none"]

\* git run in cwd: the spawn fails when the directory is gone, and may fail otherwise
GitOutcomes(path) == IF wt[path] = "absent" THEN {FALSE} ELSE BOOLEAN

(***************************************************************************)
(* Paths of the multi-repo worktree sets (multi-repo/discovery.ts).  A     *)
(* path is the sequence of its segments, a segment a sequence of character *)
(* codes.                                                                  *)
(***************************************************************************)
\* "/h/w"
WorkspaceRoot == << <<104>>, <<119>> >>

\* branch.replace(/\//g, "-")
sanitizeBranchForDir(branch) ==
    [i \in 1..Len(branch) |-> IF branch[i] = Slash THEN Dash ELSE branch[i]]

\* path.join(base, segment) for a segment without "/": "" and "." name base
\* itself, ".." names its parent
pathJoin(base, segment) ==
    IF segment = <<>> \/ segment = <<Dot>> THEN base
    ELSE IF segment = <<Dot, Dot>> THEN SubSeq(base, 1, Len(base) - 1)
    ELSE Append(base, segment)

getFeaturePath(workspaceRoot, branch) ==
    pathJoin(workspaceRoot, sanitizeBranchForDir(branch))

\* "a", "b" and "c": repositories of <workspaceRoot>/main
Repos == {<<97>>, <<98>>, <<99>>}
\* the repos lists a call is made with (the tool passes a list without duplicates)
SetRepoLists == {<< <<97>> >>, << <<98>>, <<97>> >>, << <<97>>, <<98>>, <<99>> >>}
\* "f", "a/b" and ".."
SetBranches == {<<102>>, <<97, Slash, 98>>, <<Dot, Dot>>}
SetDirs == {getFeaturePath(WorkspaceRoot, b) : b \in SetBranches}

NoDir == [exists |-> FALSE, wts |-> {}]
EmptyDir == [exists |-> TRUE, wts |-> {}]

\* rm(path, { recursive: true, force: true }): the directory and all below it
RmRf(d, path) ==
    [p \in DOMAIN d |-> IF StartsWith(p, path) THEN NoDir ELSE d[p]]

CallIdle == [pc |-> "idle"]

(***************************************************************************)
(* Terminal launcher (terminal.ts): the environment openTerminal reads,    *)
(* the detection functions and the dispatch.                               *)
(***************************************************************************)

\* process.env.X is undefined or a string (possibly the empty string)
Unset == [defined |-> FALSE, value |-> <<>>]
EnvStr(s) == [defined |-> TRUE, value |-> s]
\* JavaScript truthiness of string | undefined: `!!x`, `x || y`, `if (x)`
Truthy(v) == v.defined /\ Len(v.value) > 0

\* String.prototype.toLowerCase on character codes
ToLowerCase(s) == [i \in 1..Len(s) |-> IF s[i] \in 65..90 THEN s[i] + 32 ELSE s[i]]

\* "microsoft"
MicrosoftWord == <<109, 105, 99, 114, 111, 115, 111, 102, 116>>
\* os.release() of a WSL kernel ("5-Microsoft") and of a stock one ("6-gen"), or a throw
ReleaseWSL == [throws |-> FALSE, value |-> <<53, 45, 77, 105, 99, 114, 111, 115, 111, 102, 116>>]
ReleaseStock == [throws |-> FALSE, value |-> <<54, 45, 103, 101, 110>>]
ReleaseThrows == [throws |-> TRUE, value |-> <<>>]
OsReleases == {ReleaseWSL, ReleaseStock, ReleaseThrows}

\* the values a variable takes here: unset, empty, "/t"
EnvValues == {Unset, EnvStr(<<>>), EnvStr(<<47, 116>>)}
Platforms == {"linux", "darwin", "win32", "freebsd"}

\* "Foot" and "vt": values of TERM_PROGRAM
FootProgram == <<70, 111, 111, 116>>
FootWord == <<102, 111, 111, 116>>
OtherProgram == <<118, 116>>

NoLinuxEnv ==
    [KITTY_WINDOW_ID |-> Unset, WEZTERM_PANE |-> Unset, ALACRITTY_WINDOW_ID |-> Unset,
     GHOSTTY_RESOURCES_DIR |-> Unset, TERM_PROGRAM |-> Unset,
     GNOME_TERMINAL_SERVICE |-> Unset, KONSOLE_VERSION |-> Unset]

\* the terminal variables set: none, one of them, an empty one, or two at once
LinuxEnvs ==
    {NoLinuxEnv}
    \cup {[NoLinuxEnv EXCEPT ![v] = EnvStr(<<49>>)] :
            v \in {"KITTY_WINDOW_ID", "WEZTERM_PANE", "ALACRITTY_WINDOW_ID",
                   "GHOSTTY_RESOURCES_DIR", "GNOME_TERMINAL_SERVICE", "KONSOLE_VERSION"}}
    \cup {[NoLinuxEnv EXCEPT !.TERM_PROGRAM = EnvStr(p)] : p \in {FootProgram, OtherProgram}}
    \cup {[NoLinuxEnv EXCEPT !.KITTY_WINDOW_ID = EnvStr(<<>>)],
          [NoLinuxEnv EXCEPT !.KONSOLE_VERSION = EnvStr(<<49>>), !.WEZTERM_PANE = EnvStr(<<49>>)]}

TermEnvs ==
    [TMUX : EnvValues, WSL_DISTRO_NAME : EnvValues, WSLENV : EnvValues,
     platform : Platforms, release : OsReleases, linux : LinuxEnvs]

isInsideTmux(env) == Truthy(env.TMUX)

isInsideWSL(env) ==
    IF Truthy(env.WSL_DISTRO_NAME) \/ Truthy(env.WSLENV) THEN TRUE
    ELSE IF env.release.throws THEN FALSE
    ELSE Includes(ToLowerCase(env.release.value), MicrosoftWord)

\* openTerminal with the platform branch tested before the multiplexer
openTerminalPathPlatformFirst(env) ==
    IF env.platform = "linux" /\ isInsideWSL(env) THEN "wsl"
    ELSE IF isInsideTmux(env) THEN "tmux"
    ELSE CASE env.platform = "darwin" -> "macos"
           [] env.platform = "win32" -> "windows"
           [] env.platform = "linux" -> "linux"
           [] OTHER -> "unsupported"

\* openTerminal: the spawn path selected, first match wins
openTerminalPath(env) ==
    IF isInsideTmux(env) THEN "tmux"
    ELSE IF env.platform = "linux" /\ isInsideWSL(env) THEN "wsl"
    ELSE CASE env.platform = "darwin" -> "macos"
           [] env.platform = "win32" -> "windows"
           [] env.platform = "linux" -> "linux"
           [] OTHER -> "unsupported"

\* detectCurrentLinuxTerminal: "none" is the null that selects the fallback chain
detectCurrentLinuxTerminal(e) ==
    IF Truthy(e.KITTY_WINDOW_ID) THEN "kitty"
    ELSE IF Truthy(e.WEZTERM_PANE) THEN "wezterm"
    ELSE IF Truthy(e.ALACRITTY_WINDOW_ID) THEN "alacritty"
    ELSE IF Truthy(e.GHOSTTY_RESOURCES_DIR) THEN "ghostty"
    ELSE IF Truthy(e.GNOME_TERMINAL_SERVICE) THEN "gnome-terminal"
    ELSE IF Truthy(e.KONSOLE_VERSION) THEN "konsole"
    ELSE IF e.TERM_PROGRAM.defined /\ ToLowerCase(e.TERM_PROGRAM.value) = FootWord THEN "foot"
    ELSE "none"

\* openTerminalLinux steps 2 to 6: the candidates in the order they are tried
LinuxChain ==
    <<"xdg-terminal-exec", "x-terminal-emulator",
      "kitty", "alacritty", "wezterm", "ghostty", "foot",
      "gnome-terminal", "konsole", "xfce4-terminal", "xterm">>

\* What becomes of a terminal an opener launches: Bun.spawn throws, or the
\* detached process starts and either stays or exits with a non-zero code;
\* kitty may also take the tab over its remote control (spawnSync exit 0).
OpenerOutcomes(name) ==
    {"threw", "running", "exited-nonzero"} \cup (IF name = "kitty" THEN {"remote-tab"} ELSE {})

\* the Result an opener returns: the process is unref'ed, its exit is never awaited
OpenerOk(outcome) == outcome # "threw"

NoLaunch == [name |-> "none", outcome |-> "none"]
TermIdle == [pc |-> "idle"]

InitTerm == term = TermIdle

(***************************************************************************)
(* The database handle of the plugin module (plugin.ts): db, projectRoot,  *)
(* cleanupRegistered, getDb, initDb, registerCleanupHandlers.              *)
(***************************************************************************)
DB_MAX_RETRIES == 3
DB_RETRY_DELAY_MS == 100
\* initDb calls made in one process
MaxDbCalls == 3
\* callers whose initDb calls may overlap at `await initStateDb`
DbSlots == {1, 2}
\* "" and "r"
DbRoots == {<<>>, <<114>>}
Signals == {"SIGTERM", "SIGINT", "beforeExit"}

\* one getDb call: its position, the attempt it is at, the delays it slept,
\* what it returned, and how many handles had been opened when it began
NoCall ==
    [pc |-> "idle", attempt |-> 0, delays |-> <<>>, ret |-> "none", handle |-> 0,
     openedBefore |-> 0]

\* db is 0 for null, else the number of the handle; handles are numbered as opened
InitDb ==
    dbm = [db |-> 0, projectRoot |-> Unset, cleanupRegistered |-> FALSE,
           handlers |-> [s \in Signals |-> 0], opened |-> 0, calls |-> 0,
           slot |-> [c \in DbSlots |-> NoCall]]

\* registerCleanupHandlers without the early exit on cleanupRegistered
registerCleanupHandlersNoGuard(m) ==
    [m EXCEPT !.cleanupRegistered = TRUE, !.handlers = [s \in Signals |-> @[s] + 1]]

\* registerCleanupHandlers: process.once for the three signals, guarded by the flag
registerCleanupHandlers(m) ==
    IF m.cleanupRegistered THEN m
    ELSE [m EXCEPT !.cleanupRegistered = TRUE, !.handlers = [s \in Signals |-> @[s] + 1]]

InitStore ==
    /\ sessions = {}
    /\ pending = {}
    /\ lastWarn = NoWarn
    /\ lastCall = [op |-> "none"]

InitLife ==
    /\ wt = [p \in LifePaths |-> "absent"]
    /\ lost = {}
    /\ forks = 0
    /\ commits = <<>>
    /\ idle = [e \in 1..MaxIdleEvents |-> IdleNew]

InitCalls ==
    /\ fx = {}
    /\ ret = [tool |-> "none", status |-> "none"]

\* the workspace and the directories above it exist, no feature directory does
InitSets ==
    /\ disk = [p \in SetDirs |-> IF StartsWith(WorkspaceRoot, p) THEN EmptyDir ELSE NoDir]
    /\ call = CallIdle
    /\ setCalls = 0

\* no function application is under way
ProbeIdle == [fn |-> "none", pc |-> "idle"]
InitProgram == InitStore /\ InitLife /\ InitCalls /\ InitSets /\ InitTerm /\ InitDb

Init == InitProgram /\ probe = ProbeIdle

\* What a tool call did and returned is written to fx and ret when the call
\* is observed; the lifecycle specification does not observe its calls.
Observed(observe, effects, result) ==
    IF observe THEN fx' = effects /\ ret' = result ELSE UNCHANGED callVars

\* worktree_create.execute: validation, createWorktree, sync and hooks,
\* forkWithContext, openTerminal, addSession.
WorktreeCreate(observe) ==
    /\ forks < MaxCreates
    /\ observe => call.pc = "idle"
    /\ UNCHANGED <<setVars, laterVars>>
    /\ \E branch \in LifeBranches, base \in LifeBases :
        LET path == getWorktreePath(branch)
            tool == "worktree_create"
            args == IF base = <<>> THEN <<"worktree", "add", "-b", branch, path, <<"HEAD">> >>
                                   ELSE <<"worktree", "add", "-b", branch, path, base>>
            gitFx == {[kind |-> "mkdir", branch |-> branch],
                      [kind |-> "git", branch |-> branch, args |-> args]}
        IN
        IF ~branchNameSchema(branch)
        THEN /\ Observed(observe, {}, [tool |-> tool, branch |-> branch,
                    status |-> "invalid-branch", error |-> Head(BranchIssues(branch))])
             /\ UNCHANGED <<storeVars, lifeVars>>
        ELSE IF base # <<>> /\ ~branchNameSchema(base)
        THEN /\ Observed(observe, {}, [tool |-> tool, branch |-> branch,
                    status |-> "invalid-base", error |-> Head(BranchIssues(base))])
             /\ UNCHANGED <<storeVars, lifeVars>>
        ELSE \E outcome \in (IF wt[path] = "absent"
                              THEN {"git-failed", "fork-threw", "terminal-failed", "ok"}
                              ELSE {"git-failed"}) :
            IF outcome = "git-failed"
            THEN /\ Observed(observe, gitFx,
                        [tool |-> tool, branch |-> branch, status |-> "git-failed"])
                 /\ UNCHANGED <<storeVars, lifeVars>>
            ELSE IF outcome = "fork-threw"
            THEN \* forkWithContext throws: the tool call throws with it
                 /\ Observed(observe, gitFx \cup {[kind |-> "postCreate", branch |-> branch]},
                        [tool |-> tool, branch |-> branch, status |-> "threw"])
                 /\ wt' = [wt EXCEPT ![path] = "clean"]
                 /\ UNCHANGED <<storeVars, lost, forks, commits, idle>>
            ELSE LET sid == ForkedId(forks + 1)
                     termOk == outcome = "ok" IN
                 /\ Observed(observe,
                        gitFx \cup
                          {[kind |-> "postCreate", branch |-> branch],
                           [kind |-> "fork", branch |-> branch],
                           [kind |-> "terminal", branch |-> branch, cwd |-> path,
                            command |-> <<"opencode", "--session", sid>>, ok |-> termOk],
                           [kind |-> "addSession", branch |-> branch]},
                        [tool |-> tool, branch |-> branch, status |-> "created"])
                 /\ wt' = [wt EXCEPT ![path] = "clean"]
                 /\ forks' = forks + 1
                 /\ sessions' = addSession(sessions,
                                    [id |-> sid, branch |-> branch, path |-> path])
                 /\ UNCHANGED <<pending, lastWarn, lastCall, lost, commits, idle>>

\* work done in a worktree leaves uncommitted changes
UserEdit ==
    \E p \in LifePaths :
        /\ wt[p] = "clean"
        /\ wt' = [wt EXCEPT ![p] = "dirty"]
        /\ UNCHANGED <<storeVars, lost, forks, commits, idle, callVars, setVars, laterVars>>

\* worktree_delete.execute
WorktreeDelete(observe) ==
    /\ Len(commits) < MaxDeleteCalls
    /\ UNCHANGED <<setVars, laterVars>>
    /\ \E sid \in LiveSessionIds :
        LET session == getSession(sessions, sid) IN
        IF session = Null
        THEN /\ Observed(observe, {}, [tool |-> "worktree_delete", status |-> "no-worktree"])
             /\ UNCHANGED <<storeVars, lifeVars>>
        ELSE LET del == [branch |-> session.branch, path |-> session.path] IN
             /\ lastWarn' = IF observe THEN DeleteWarning(pending, del) ELSE lastWarn
             /\ pending' = setPendingDelete(pending, del)
             /\ commits' = Append(commits, [session |-> sid, branch |-> del.branch,
                                            path |-> del.path])
             /\ Observed(observe, {}, [tool |-> "worktree_delete", status |-> "marked"])
             /\ UNCHANGED <<sessions, lastCall, wt, lost, forks, idle>>

\* event: an event is delivered.  Anything but session.idle returns at once,
\* and so does session.idle when no delete is pending; otherwise the handler
\* keeps the pending delete it read and awaits loadWorktreeConfig.
IdleStart(e) ==
    /\ idle[e].pc = "new"
    /\ IF e = 1 THEN TRUE ELSE idle[e - 1].pc # "new"
    /\ \E s \in LiveSessionIds, type \in {"session.idle", "session.updated"} :
        LET pd == getPendingDelete(pending) IN
        idle' = [idle EXCEPT ![e] =
                    IF type # "session.idle" \/ pd = Null
                    THEN [@ EXCEPT !.pc = "done"]
                    ELSE [@ EXCEPT !.pc = "add", !.session = s, !.pd = pd,
                                   !.req = Len(commits)]]
    /\ UNCHANGED <<storeVars, wt, lost, forks, commits, callVars, setVars, laterVars>>

\* the config is loaded, the preDelete hooks have run in the worktree, then
\* git add -A; a failure is logged and the flow goes on
IdleAdd(e) ==
    /\ idle[e].pc = "add"
    /\ \E ok \in GitOutcomes(idle[e].pd.path) :
        /\ idle' = [idle EXCEPT ![e].pc = "commit",
                                 ![e].snapshot = IF ok THEN "added" ELSE "failed"]
        /\ wt' = IF ok /\ wt[idle[e].pd.path] = "dirty"
                 THEN [wt EXCEPT ![idle[e].pd.path] = "staged"] ELSE wt
    /\ UNCHANGED <<storeVars, lost, forks, commits, callVars, setVars, laterVars>>

\* git commit --allow-empty in the worktree; a failure is logged and the flow goes on
IdleCommit(e) ==
    /\ idle[e].pc = "commit"
    /\ \E ok \in GitOutcomes(idle[e].pd.path) :
        /\ idle' = [idle EXCEPT ![e].pc = "remove",
                                 ![e].snapshot = IF ok /\ idle[e].snapshot = "added"
                                                 THEN "committed" ELSE "failed"]
        /\ wt' = IF ok /\ wt[idle[e].pd.path] = "staged"
                 THEN [wt EXCEPT ![idle[e].pd.path] = "clean"] ELSE wt
    /\ UNCHANGED <<storeVars, lost, forks, commits, callVars, setVars, laterVars>>

\* removeWorktree: git worktree remove --force; a failure is logged
IdleRemove(e) ==
    /\ idle[e].pc = "remove"
    /\ \E ok \in GitOutcomes(idle[e].pd.path) :
        LET p == idle[e].pd.path IN
        /\ idle' = [idle EXCEPT ![e].pc = "clear"]
        /\ wt' = IF ok THEN [wt EXCEPT ![p] = "absent"] ELSE wt
        /\ lost' = IF ok /\ wt[p] \in {"dirty", "staged"} THEN lost \cup {p} ELSE lost
    /\ UNCHANGED <<storeVars, forks, commits, callVars, setVars, laterVars>>

\* clearPendingDelete and removeSession, run without an await between them
IdleClear(e) ==
    /\ idle[e].pc = "clear"
    /\ pending' = clearPendingDelete(pending)
    /\ sessions' = removeSession(sessions, idle[e].pd.branch)
    /\ idle' = [idle EXCEPT ![e] = [IdleNew EXCEPT !.pc = "done", !.req = idle[e].req]]
    /\ UNCHANGED <<lastWarn, lastCall, wt, lost, forks, commits, callVars, setVars, laterVars>>

Next ==
    \/ WorktreeCreate(FALSE)
    \/ UserEdit
    \/ WorktreeDelete(FALSE)
    \/ \E e \in 1..MaxIdleEvents : IdleStart(e)
    \/ \E e \in 1..MaxIdleEvents : IdleAdd(e)
    \/ \E e \in 1..MaxIdleEvents : IdleCommit(e)
    \/ \E e \in 1..MaxIdleEvents : IdleRemove(e)
    \/ \E e \in 1..MaxIdleEvents : IdleClear(e)

Spec == Init /\ [][Next]_vars

(***************************************************************************)
(* Claims about the pending delete and the session.idle delete flow.       *)
(***************************************************************************)
InFlight(e) == idle[e].pc \in {"add", "commit", "remove", "clear"}
LastCommit == commits[Len(commits)]

\* C3: last write wins: the request whose setPendingDelete committed last is
\* the one stored until a session.idle handler acts on it, so the next
\* handler acts on it; it is never dropped unhandled.
C3_LastCommitHonoured ==
    (Len(commits) > 0 /\ \A e \in 1..MaxIdleEvents : idle[e].req # Len(commits))
        => getPendingDelete(pending) = [branch |-> LastCommit.branch, path |-> LastCommit.path]

\* C4: the delete flow of one pending delete is run by at most one
\* session.idle handler, whatever the interleaving of the handlers.
C4_DeleteFlowOnce ==
    \A e1, e2 \in 1..MaxIdleEvents :
        (e1 # e2 /\ idle[e1].req > 0) => idle[e1].req # idle[e2].req

\* C5: the delete flow runs only for an idle event of the session whose
\* worktree_delete recorded the pending delete.
C5_OnlyOwnSessionIdle ==
    \A e \in 1..MaxIdleEvents :
        InFlight(e) => idle[e].session = commits[idle[e].req].session

\* C7: git worktree remove --force has been invoked only by a handler whose
\* git add -A and snapshot commit both succeeded, and no forced removal has
\* discarded uncommitted changes.
C7_RemoveAfterSnapshot ==
    /\ \A e \in 1..MaxIdleEvents : idle[e].pc = "clear" => idle[e].snapshot = "committed"
    /\ lost = {}

\* C35: a pending delete row is cleared only by a handler whose delete flow
\* ran for the branch and path of that row, so a worktree_delete that
\* commits while a handler is between its getPendingDelete and its
\* clearPendingDelete is not lost.
C35_ClearedRowWasHandled ==
    [][\A e \in 1..MaxIdleEvents :
          (idle[e].pc = "clear" /\ idle'[e].pc = "done"
              /\ getPendingDelete(pending) # Null)
            => getPendingDelete(pending) = idle[e].pd]_vars

(***************************************************************************)
(* The delete flow across a stop of the process: the specification         *)
(* CrashSpec.  A worktree has been created; its session calls              *)
(* worktree_delete, session.idle handlers run the delete flow, and the     *)
(* process may stop while handlers are suspended at an await.  The store   *)
(* is the SQLite file that initStateDb opens again when the plugin is      *)
(* started again; the worktrees are directories on disk.                   *)
(***************************************************************************)
\* a start that creates the tables anew
ReopenFresh(tbl) == {}
\* initStateDb: CREATE TABLE IF NOT EXISTS keeps the rows of the file
ReopenTable(tbl) == tbl

\* worktree_create has created "f" and recorded its session
CrashInit ==
    /\ InitCalls /\ InitSets /\ InitTerm /\ InitDb
    /\ probe = ProbeIdle
    /\ sessions = addSession({}, [id |-> ForkedId(1), branch |-> <<102>>,
                                  path |-> getWorktreePath(<<102>>)])
    /\ pending = {}
    /\ lastWarn = NoWarn
    /\ lastCall = [op |-> "none"]
    /\ wt = [p \in LifePaths |->
                IF p = getWorktreePath(<<102>>) THEN "clean" ELSE "absent"]
    /\ lost = {}
    /\ forks = Cardinality(sessions)
    /\ commits = <<>>
    /\ idle = [e \in 1..MaxIdleEvents |-> IdleNew]

\* The process stops: every handler suspended at an await is abandoned where
\* it is.  The plugin is started again and initDb opens the same file.
Crash ==
    /\ \E e \in 1..MaxIdleEvents : InFlight(e)
    /\ idle' = [e \in 1..MaxIdleEvents |->
                   IF InFlight(e) THEN [idle[e] EXCEPT !.pc = "stopped"] ELSE idle[e]]
    /\ sessions' = ReopenTable(sessions)
    /\ pending' = ReopenTable(pending)
    /\ UNCHANGED <<lastWarn, lastCall, wt, lost, forks, commits, callVars, setVars, laterVars>>

CrashNext ==
    \/ WorktreeDelete(FALSE)
    \/ \E e \in 1..MaxIdleEvents : IdleStart(e)
    \/ \E e \in 1..MaxIdleEvents : IdleAdd(e)
    \/ \E e \in 1..MaxIdleEvents : IdleCommit(e)
    \/ \E e \in 1..MaxIdleEvents : IdleRemove(e)
    \/ \E e \in 1..MaxIdleEvents : IdleClear(e)
    \/ Crash

CrashSpec == CrashInit /\ [][CrashNext]_vars

C34_HandlerClearsStore ==
    [][\A e \in 1..MaxIdleEvents :
          /\ (idle[e].pc = "clear" /\ idle'[e].pc = "done")
                => /\ getPendingDelete(pending') = Null
                   /\ \A r \in sessions' : r.branch # idle[e].pd.branch
          /\ (idle[e].pc = "new" /\ idle'[e].pc = "done")
                => UNCHANGED <<sessions, pending, wt>>]_vars

\* a handler has finished a delete flow whose worktree removal failed, and
\* the store holds neither the pending delete nor a session of that branch
C34_Witness ==
    \E e \in 1..MaxIdleEvents :
        /\ idle[e].pc = "done"
        /\ idle[e].req > 0
        /\ wt[commits[idle[e].req].path] # "absent"
        /\ getPendingDelete(pending) = Null
        /\ \A r \in sessions : r.branch # commits[idle[e].req].branch

(***************************************************************************)
(* The plugin that resumes the calling session instead of forking one      *)
(* (src/plugin/worktree.ts): its worktree_create records the worktree      *)
(* under the id of the session that called the tool.  worktree_delete and  *)
(* the event handler are the same code.                                    *)
(***************************************************************************)
\* the interactive sessions of the project that call worktree_create
CallerSessionIds == {MainSession, ForkedId(1)}

WorktreeCreateLegacy ==
    /\ forks < MaxCreates
    /\ \E caller \in CallerSessionIds, branch \in LifeBranches, base \in LifeBases :
        LET path == getWorktreePath(branch) IN
        IF ~branchNameSchema(branch) \/ (base # <<>> /\ ~branchNameSchema(base))
        THEN UNCHANGED <<storeVars, lifeVars>>
        ELSE \E ok \in BOOLEAN :
            IF wt[path] # "absent" \/ ~ok
            THEN UNCHANGED <<storeVars, lifeVars>>
            ELSE /\ wt' = [wt EXCEPT ![path] = "clean"]
                 /\ forks' = forks + 1
                 /\ sessions' = addSession(sessions,
                                    [id |-> caller, branch |-> branch, path |-> path])
                 /\ UNCHANGED <<pending, lastWarn, lastCall, lost, commits, idle>>
    /\ UNCHANGED <<callVars, setVars, laterVars>>

LegacyNext ==
    \/ WorktreeCreateLegacy
    \/ UserEdit
    \/ WorktreeDelete(FALSE)
    \/ \E e \in 1..MaxIdleEvents : IdleStart(e)
    \/ \E e \in 1..MaxIdleEvents : IdleAdd(e)
    \/ \E e \in 1..MaxIdleEvents : IdleCommit(e)
    \/ \E e \in 1..MaxIdleEvents : IdleRemove(e)
    \/ \E e \in 1..MaxIdleEvents : IdleClear(e)

LegacySpec == Init /\ [][LegacyNext]_vars

\* C14: every single-repo worktree that was created and has not been deleted
\* has a session row with its branch and path that getSession returns,
\* whichever sessions the worktree_create calls were made from.
C14_SessionPerWorktree ==
    \A p \in LifePaths :
        wt[p] # "absent" =>
            \E r \in sessions :
                r.path = p /\ getWorktreePath(r.branch) = p /\ getSession(sessions, r.id) = r

(***************************************************************************)
(* The multi-repo set orchestrator (multi-repo/sets.ts): createWorktreeSet *)
(* and removeWorktreeSet, one step per awaited repository or entry.  Set   *)
(* calls are made one after another.  git reports a failure as a value and *)
(* loadWorktreeConfig, copyFiles, symlinkDirs and runHooks log theirs, so  *)
(* nothing called in the per-repo try block throws.                        *)
(***************************************************************************)
\* the result returned when the branch name fails validation
InvalidBranchResultFirstOnly(repos, errorMsg) ==
    [featurePath |-> <<>>,
     results |-> [k \in 1..1 |-> [repo |-> repos[k], success |-> FALSE,
                                  error |-> <<"Invalid branch name: ", errorMsg>>]],
     successCount |-> 0,
     failureCount |-> 1]
InvalidBranchResult(repos, errorMsg) ==
    [featurePath |-> <<>>,
     results |-> [k \in 1..Len(repos) |-> [repo |-> repos[k], success |-> FALSE,
                                           error |-> <<"Invalid branch name: ", errorMsg>>]],
     successCount |-> 0,
     failureCount |-> Len(repos)]

\* some entry of the feature directory has a .git file
HasWorktreesNever(dir) == FALSE
HasWorktrees(dir) == dir.wts # {}

\* the result returned when the feature directory already holds a worktree
ContainsWorktreesResult(featurePath, repos) ==
    [featurePath |-> featurePath,
     results |-> [k \in 1..Len(repos) |->
                    [repo |-> repos[k], success |-> FALSE,
                     error |-> "Feature directory already contains worktrees"]],
     successCount |-> 0,
     failureCount |-> Len(repos)]

\* the index the for loop goes on with after a repo, whatever its outcome
NextRepoStopOnFailure(i, n, ok) == IF ok THEN i + 1 ELSE n + 1
NextRepo(i, n, ok) == i + 1

\* successCount > 0: launch the terminal; otherwise remove the directory
ShouldLaunchAlways(successCount) == successCount >= 0
ShouldLaunch(successCount) == successCount > 0

\* git worktree add fails when the worktree path is taken, and may fail otherwise
AddOutcomes(dir, repo) == IF repo \in dir.wts THEN {FALSE} ELSE BOOLEAN

Returned(tool, branch, repos, status, result) ==
    [tool |-> tool, branch |-> branch, repos |-> repos, status |-> status,
     featurePath |-> result.featurePath, results |-> result.results,
     successCount |-> result.successCount, failureCount |-> result.failureCount]

\* createWorktreeSet up to the for loop: validation, the check for worktrees
\* already in the feature directory, mkdir
SetCreateBegin ==
    /\ call.pc = "idle"
    /\ setCalls < MaxSetCalls
    /\ setCalls' = setCalls + 1
    /\ \E branch \in SetBranches, repos \in SetRepoLists :
        LET tool == "createWorktreeSet"
            featurePath == getFeaturePath(WorkspaceRoot, branch)
            scan == [kind |-> "readdir", branch |-> branch, path |-> featurePath]
        IN
        IF ~branchNameSchema(branch)
        THEN /\ fx' = {}
             /\ ret' = Returned(tool, branch, repos, "invalid-branch",
                                InvalidBranchResult(repos, Head(BranchIssues(branch))))
             /\ UNCHANGED <<disk, call>>
        ELSE IF HasWorktrees(disk[featurePath])
        THEN /\ fx' = {scan}
             /\ ret' = Returned(tool, branch, repos, "contains-worktrees",
                                ContainsWorktreesResult(featurePath, repos))
             /\ UNCHANGED <<disk, call>>
        ELSE /\ fx' = {scan, [kind |-> "mkdir", branch |-> branch, path |-> featurePath]}
             /\ ret' = [tool |-> tool, status |-> "running"]
             /\ disk' = [disk EXCEPT ![featurePath] = [@ EXCEPT !.exists = TRUE]]
             /\ call' = [pc |-> "repo", op |-> "create", branch |-> branch, repos |-> repos,
                         featurePath |-> featurePath, i |-> 1, results |-> <<>>,
                         successCount |-> 0, failureCount |-> 0]
    /\ UNCHANGED <<storeVars, lifeVars, laterVars>>

\* one iteration of the for loop: git worktree add, then config, sync and hooks
SetCreateRepo ==
    /\ call.pc = "repo"
    /\ LET repo == call.repos[call.i]
           n == Len(call.repos)
       IN
       \E ok \in AddOutcomes(disk[call.featurePath], repo) :
        /\ fx' = fx \cup {[kind |-> "worktree-add", branch |-> call.branch, pos |-> call.i,
                           repo |-> repo, path |-> Append(call.featurePath, repo),
                           ok |-> ok]}
        /\ disk' = IF ok THEN [disk EXCEPT ![call.featurePath].wts = @ \cup {repo}]
                         ELSE disk
        /\ call' = [call EXCEPT
                      !.results = Append(@, IF ok
                            THEN [repo |-> repo, success |-> TRUE,
                                  worktreePath |-> Append(call.featurePath, repo)]
                            ELSE [repo |-> repo, success |-> FALSE, error |-> "git"]),
                      !.successCount = IF ok THEN @ + 1 ELSE @,
                      !.failureCount = IF ok THEN @ ELSE @ + 1,
                      !.i = NextRepo(call.i, n, ok),
                      !.pc = IF NextRepo(call.i, n, ok) > n THEN "finish" ELSE "repo"]
    /\ UNCHANGED <<storeVars, lifeVars, laterVars, ret, setCalls>>

\* after the loop: one terminal in the feature directory, or the directory is
\* removed; a failure of either is logged
SetCreateFinish ==
    /\ call.pc = "finish"
    /\ \E ok \in BOOLEAN :
        IF ShouldLaunch(call.successCount)
        THEN /\ fx' = fx \cup {[kind |-> "terminal", branch |-> call.branch,
                                cwd |-> call.featurePath, command |-> <<"opencode">>,
                                name |-> sanitizeBranchForDir(call.branch), ok |-> ok]}
             /\ disk' = disk
        ELSE /\ fx' = fx \cup {[kind |-> "rm", branch |-> call.branch,
                                path |-> call.featurePath, ok |-> ok]}
             /\ disk' = IF ok THEN RmRf(disk, call.featurePath) ELSE disk
    /\ ret' = Returned("createWorktreeSet", call.branch, call.repos, "done", call)
    /\ call' = CallIdle
    /\ UNCHANGED <<storeVars, lifeVars, laterVars, setCalls>>

\* removedCount after an entry: it counts the entries git removed
CountAttempted(removedCount, outcome) == removedCount + 1
CountRemoved(removedCount, outcome) ==
    IF outcome = "removed" THEN removedCount + 1 ELSE removedCount

\* removeWorktreeSet up to its for loop: lstat and readdir of the feature
\* path.  Entries without a .git file are skipped, so the loop is over the
\* worktree entries.
SetRemoveBegin ==
    /\ call.pc = "idle"
    /\ setCalls < MaxSetCalls
    /\ setCalls' = setCalls + 1
    /\ \E branch \in SetBranches :
        LET featurePath == getFeaturePath(WorkspaceRoot, branch)
            lstat == [kind |-> "lstat", branch |-> branch, path |-> featurePath]
        IN
        IF ~disk[featurePath].exists
        THEN /\ fx' = {lstat}
             /\ ret' = [tool |-> "removeWorktreeSet", branch |-> branch,
                        status |-> "not-found", featurePath |-> featurePath,
                        removedCount |-> 0, failureCount |-> 0,
                        errors |-> <<"Feature directory not found">>]
             /\ call' = call
        ELSE /\ fx' = {lstat, [kind |-> "readdir", branch |-> branch, path |-> featurePath]}
             /\ ret' = [tool |-> "removeWorktreeSet", status |-> "running"]
             /\ call' = [pc |-> "entry", op |-> "remove", branch |-> branch,
                         featurePath |-> featurePath, todo |-> disk[featurePath].wts,
                         removedCount |-> 0, failureCount |-> 0, errors |-> <<>>]
    /\ UNCHANGED <<storeVars, lifeVars, laterVars, disk>>

\* one worktree entry: git rev-parse, preDelete hooks, git worktree remove --force
SetRemoveEntry ==
    /\ call.pc = "entry"
    /\ \E entry \in call.todo, outcome \in {"rev-parse-failed", "remove-failed", "removed"} :
        /\ fx' = fx \cup {[kind |-> "git-remove", branch |-> call.branch, repo |-> entry,
                           path |-> Append(call.featurePath, entry), outcome |-> outcome]}
        /\ disk' = IF outcome = "removed"
                   THEN [disk EXCEPT ![call.featurePath].wts = @ \ {entry}]
                   ELSE disk
        /\ call' = [call EXCEPT
                      !.todo = @ \ {entry},
                      !.removedCount = CountRemoved(@, outcome),
                      !.failureCount = IF outcome = "removed" THEN @ ELSE @ + 1,
                      !.errors = IF outcome = "removed" THEN @
                                 ELSE Append(@, <<outcome, entry>>)]
    /\ UNCHANGED <<storeVars, lifeVars, laterVars, ret, setCalls>>

\* after the loop: rm -rf of the feature path; a failure is recorded in errors
SetRemoveFinish ==
    /\ call.pc = "entry"
    /\ call.todo = {}
    /\ \E ok \in BOOLEAN :
        /\ fx' = fx \cup {[kind |-> "rm", branch |-> call.branch,
                           path |-> call.featurePath, ok |-> ok]}
        /\ disk' = IF ok THEN RmRf(disk, call.featurePath) ELSE disk
    /\ ret' = [tool |-> "removeWorktreeSet", branch |-> call.branch, status |-> "done",
               featurePath |-> call.featurePath, removedCount |-> call.removedCount,
               failureCount |-> call.failureCount,
               errors |-> IF \E f \in fx' : f.kind = "rm" /\ ~f.ok
                          THEN Append(call.errors, "Failed to remove feature directory")
                          ELSE call.errors]
    /\ call' = CallIdle
    /\ UNCHANGED <<storeVars, lifeVars, laterVars, setCalls>>

ToolNext ==
    \/ WorktreeCreate(TRUE)
    \/ SetCreateBegin
    \/ SetCreateRepo
    \/ SetCreateFinish
    \/ SetRemoveBegin
    \/ SetRemoveEntry
    \/ SetRemoveFinish

ToolSpec == Init /\ [][ToolNext]_vars

(***************************************************************************)
(* Claims about the tools and the set orchestrator.                        *)
(***************************************************************************)
\* C6: every side effect of a tool call that takes a branch name (a path
\* computed, scanned or deleted, a git command run) is made with a branch
\* name the Branch Validator accepts.
C6_ValidatedBeforeUse == \A f \in fx : branchNameSchema(f.branch)

WorktreeAdds == {f \in fx : f.kind = "worktree-add"}
Succeeded(results) == {k \in 1..Len(results) : results[k].success}

\* the repos of the first Len(results) positions were each attempted once, in
\* order, each result is the outcome of its own attempt, the counters count
\* the results and the feature directory holds the worktrees that succeeded
AttemptedInOrder(c) ==
    LET n == Len(c.results) IN
    /\ n <= Len(c.repos)
    /\ Cardinality(WorktreeAdds) = n
    /\ \A k \in 1..n :
        \E f \in WorktreeAdds :
            /\ f.pos = k
            /\ f.repo = c.repos[k]
            /\ c.results[k].repo = c.repos[k]
            /\ c.results[k].success = f.ok
    /\ c.successCount = Cardinality(Succeeded(c.results))
    /\ c.failureCount = n - c.successCount
    /\ disk[c.featurePath].wts = {c.repos[k] : k \in Succeeded(c.results)}

SetCreated == ret.tool = "createWorktreeSet" /\ ret.status = "done"

\* C8: once createWorktreeSet has reached its loop, every repo of the list is
\* attempted exactly once in caller order, a failure neither stops the loop
\* nor changes an earlier result, and the call returns the counts of the
\* results with the feature directory holding exactly the repos that
\* succeeded ([a,b,c] with only b failing: 2 and 1, a and c but not b).
C8_ContinueOnError ==
    /\ call.pc = "repo" =>
        AttemptedInOrder(call) /\ Len(call.results) = call.i - 1
                               /\ call.i <= Len(call.repos)
    /\ call.pc = "finish" =>
        AttemptedInOrder(call) /\ Len(call.results) = Len(call.repos)
    /\ SetCreated =>
        AttemptedInOrder(ret) /\ Len(ret.results) = Len(ret.repos)

\* C8 witness: repos [a,b,c], only b failed.
C8_Witness ==
    /\ SetCreated
    /\ ret.repos = << <<97>>, <<98>>, <<99>> >>
    /\ Succeeded(ret.results) = {1, 3}
    /\ ret.successCount = 2
    /\ ret.failureCount = 1
    /\ disk[ret.featurePath].wts = {<<97>>, <<99>>}

Terminals == {f \in fx : f.kind = "terminal"}
Removals == {f \in fx : f.kind = "rm"}

\* C9 as stated: one shared terminal exactly if successCount >= 1, none and
\* no feature directory on disk if successCount = 0.
C9_TerminalOrNoDirectory ==
    SetCreated =>
        /\ Cardinality(Terminals) = (IF ret.successCount >= 1 THEN 1 ELSE 0)
        /\ \A t \in Terminals : t.cwd = ret.featurePath /\ t.command = <<"opencode">>
        /\ ret.successCount = 0 => ~disk[ret.featurePath].exists

\* C9 amended: after the loop createWorktreeSet opens one terminal in the
\* feature directory, running the base command, exactly if successCount >= 1;
\* if successCount = 0 it opens none and force-removes the feature directory,
\* which is then gone unless that removal fails (the failure is only logged).
C9_TerminalOrRemoval ==
    SetCreated =>
        /\ Cardinality(Terminals) = (IF ret.successCount >= 1 THEN 1 ELSE 0)
        /\ \A t \in Terminals : t.cwd = ret.featurePath /\ t.command = <<"opencode">>
        /\ Cardinality(Removals) = (IF ret.successCount = 0 THEN 1 ELSE 0)
        /\ \A r \in Removals :
            r.path = ret.featurePath /\ (r.ok => ~disk[ret.featurePath].exists)
        /\ ret.successCount >= 1 => disk[ret.featurePath].exists

\* C9 witness: every repo failed and the removal of the directory failed.
C9_Witness ==
    /\ SetCreated
    /\ ret.successCount = 0
    /\ Terminals = {}
    /\ \E r \in Removals : ~r.ok
    /\ disk[ret.featurePath].exists

BranchRejected(r) ==
    /\ r.tool \in {"worktree_create", "createWorktreeSet"}
    /\ r.status # "running"
    /\ ~branchNameSchema(r.branch)

\* C10: a worktree_create or createWorktreeSet call with a branch name that
\* fails validation returns with no side effect (no git command, directory,
\* session or terminal), and createWorktreeSet returns every requested repo
\* failed with the validation message, successCount 0 and failureCount the
\* number of repos.
C10_InvalidBranchNoEffects ==
    [][BranchRejected(ret') =>
        /\ fx' = {}
        /\ UNCHANGED <<sessions, pending, wt, lost, forks, disk, call>>
        /\ ret'.tool = "createWorktreeSet" =>
            /\ ret'.successCount = 0
            /\ ret'.failureCount = Len(ret'.repos)
            /\ Len(ret'.results) = Len(ret'.repos)
            /\ \A k \in 1..Len(ret'.repos) :
                ret'.results[k] =
                    [repo |-> ret'.repos[k], success |-> FALSE,
                     error |-> <<"Invalid branch name: ", Head(BranchIssues(ret'.branch))>>]
    ]_vars

\* C10 witness: createWorktreeSet has rejected the branch of a call for three
\* repos while a session and a worktree set existed.
C10_Witness ==
    /\ BranchRejected(ret)
    /\ ret.tool = "createWorktreeSet"
    /\ Len(ret.repos) = 3
    /\ sessions # {}
    /\ \E d \in SetDirs : disk[d].wts # {}

\* the branch of the createWorktreeSet call that this step begins
BegunBranch == IF call'.pc = "repo" THEN call'.branch ELSE ret'.branch
BeginsSetCreate ==
    call.pc = "idle" /\ setCalls' # setCalls /\ ret'.tool = "createWorktreeSet"

SetRemoved == ret.tool = "removeWorktreeSet" /\ ret.status = "done"
GitRemoved == {f \in fx : f.kind = "git-remove" /\ f.outcome = "removed"}

C13_ToolsNeverThrow == ret.status # "threw"

(***************************************************************************)
(* openTerminal called in any environment, and the Linux fallback chain    *)
(* one candidate at a time: the specification TermSpec.                    *)
(***************************************************************************)
TermDone(t, result) == [t EXCEPT !.pc = "done", !.result = result]

\* openTerminal: reads the environment and dispatches; the tmux, WSL, macOS
\* and Windows launchers return ok or an error, an unknown platform an error
OpenTerminal ==
    /\ term.pc = "idle"
    /\ \E env \in TermEnvs :
        LET path == openTerminalPath(env)
            begun == [pc |-> "script", env |-> env, path |-> path, step |-> 0,
                      last |-> NoLaunch, started |-> 0, result |-> "none"]
        IN  IF path = "linux" THEN term' = begun
            ELSE IF path = "unsupported" THEN term' = TermDone(begun, "err")
            ELSE \E ok \in BOOLEAN : term' = TermDone(begun, IF ok THEN "ok" ELSE "err")
    /\ UNCHANGED notTermVars

\* openTerminalLinux: the temp script is written and made executable, or the call fails
LinuxScript ==
    /\ term.pc = "script"
    /\ \E ok \in BOOLEAN :
        term' = IF ok THEN [term EXCEPT !.pc = "detect"] ELSE TermDone(term, "err")
    /\ UNCHANGED notTermVars

\* the opener of one candidate has run with this outcome
Launched(t, name, outcome) ==
    [t EXCEPT !.last = [name |-> name, outcome |-> outcome],
              !.started = IF OpenerOk(outcome) THEN @ + 1 ELSE @]

\* step 1: the terminal the environment variables name is tried first
LinuxDetect ==
    /\ term.pc = "detect"
    /\ LET current == detectCurrentLinuxTerminal(term.env.linux) IN
        IF current = "none" THEN term' = [term EXCEPT !.pc = "chain", !.step = 1]
        ELSE \E outcome \in OpenerOutcomes(current) :
            LET t == Launched(term, current, outcome) IN
            term' = IF OpenerOk(outcome) THEN TermDone(t, "ok")
                    ELSE [t EXCEPT !.pc = "chain", !.step = 1]
    /\ UNCHANGED notTermVars

\* steps 2 to 5: `which` the candidate, run its opener if found, return on ok
LinuxStep ==
    /\ term.pc = "chain"
    /\ term.step < Len(LinuxChain)
    /\ \E found \in BOOLEAN :
        IF ~found THEN term' = [term EXCEPT !.step = @ + 1]
        ELSE \E outcome \in OpenerOutcomes(LinuxChain[term.step]) :
            LET t == Launched(term, LinuxChain[term.step], outcome) IN
            term' = IF OpenerOk(outcome) THEN TermDone(t, "ok")
                    ELSE [t EXCEPT !.step = @ + 1]
    /\ UNCHANGED notTermVars

\* step 6: xterm is run without a `which`, its Result is the call's
LinuxXterm ==
    /\ term.pc = "chain"
    /\ term.step = Len(LinuxChain)
    /\ \E outcome \in OpenerOutcomes(LinuxChain[term.step]) :
        term' = TermDone(Launched(term, LinuxChain[term.step], outcome),
                         IF OpenerOk(outcome) THEN "ok" ELSE "err")
    /\ UNCHANGED notTermVars

TermNext == OpenTerminal \/ LinuxScript \/ LinuxDetect \/ LinuxStep \/ LinuxXterm

TermSpec == Init /\ [][TermNext]_vars

\* the multiplexer variable holds a non-empty value
TmuxNonEmpty == term.env.TMUX.defined /\ term.env.TMUX.value # <<>>
\* a WSL variable holds a non-empty value
WslVariable ==
    \/ term.env.WSL_DISTRO_NAME.defined /\ term.env.WSL_DISTRO_NAME.value # <<>>
    \/ term.env.WSLENV.defined /\ term.env.WSLENV.value # <<>>

\* C19 as stated: whenever TMUX is set (defined, whatever its value) the tmux
\* path is selected on every platform and for every other variable, and the
\* WSL path is selected only when TMUX is not set.
C19_TmuxSetFirst ==
    term.pc # "idle" =>
        /\ term.env.TMUX.defined => term.path = "tmux"
        /\ term.path = "wsl" => ~term.env.TMUX.defined

\* C19: openTerminal selects by first match in the order multiplexer > WSL >
\* platform: whenever TMUX holds a non-empty value the tmux path is selected
\* on every platform and for every value of the other variables; the WSL path
\* is selected only when TMUX is unset or empty, and then on Linux with a WSL
\* variable it is selected before the platform's own launcher.
C19_TmuxNonEmptyFirst ==
    term.pc # "idle" =>
        /\ TmuxNonEmpty => term.path = "tmux"
        /\ term.path = "wsl" => ~TmuxNonEmpty /\ term.env.platform = "linux"
        /\ (~TmuxNonEmpty /\ term.env.platform = "linux" /\ WslVariable) => term.path = "wsl"

\* inside tmux inside WSL: the tmux path was selected
C19_Witness ==
    /\ term.pc = "done"
    /\ TmuxNonEmpty
    /\ term.env.platform = "linux"
    /\ WslVariable
    /\ term.path = "tmux"
    /\ term.result = "ok"

\* C20: on Linux with no environment-variable match, a launch of a chain
\* candidate that exits non-zero is followed by the next candidate: the call
\* does not end on a launch that exited non-zero unless it was the last
\* candidate (xterm).
C20_NonZeroExitTriesNext ==
    (/\ term.pc = "done"
     /\ term.path = "linux"
     /\ detectCurrentLinuxTerminal(term.env.linux) = "none"
     /\ term.last.outcome = "exited-nonzero")
        => term.last.name = "xterm"

(***************************************************************************)
(* initDb called by callers whose calls overlap at the await of            *)
(* initStateDb: the specification DbSpec.                                  *)
(***************************************************************************)
\* initDb(root): projectRoot = root, then getDb up to its first await
DbInit(c) ==
    /\ dbm.calls < MaxDbCalls
    /\ dbm.slot[c].pc \in {"idle", "done"}
    /\ \E root \in DbRoots :
        LET begun == [NoCall EXCEPT !.openedBefore = dbm.opened]
            entered ==
                IF dbm.db # 0
                THEN [begun EXCEPT !.pc = "done", !.ret = "handle", !.handle = dbm.db]
                ELSE IF ~Truthy(EnvStr(root))
                THEN [begun EXCEPT !.pc = "done", !.ret = "threw-uninit"]
                ELSE [begun EXCEPT !.pc = "open", !.attempt = 1]
        IN  dbm' = [dbm EXCEPT !.projectRoot = EnvStr(root), !.calls = @ + 1,
                               !.slot[c] = entered]
    /\ UNCHANGED notDbVars

\* getDb: one attempt completes; on success db is assigned, the handlers are
\* registered and the handle returned; on failure the call sleeps and tries
\* again, or throws after the last attempt
DbOpen(c) ==
    /\ dbm.slot[c].pc = "open"
    /\ \E ok \in BOOLEAN :
        IF ok
        THEN LET h == dbm.opened + 1
                 m == registerCleanupHandlers([dbm EXCEPT !.db = h, !.opened = h])
             IN  dbm' = [m EXCEPT !.slot[c] =
                            [@ EXCEPT !.pc = "done", !.ret = "handle", !.handle = h]]
        ELSE IF dbm.slot[c].attempt < DB_MAX_RETRIES
        THEN dbm' = [dbm EXCEPT !.slot[c] =
                        [@ EXCEPT !.attempt = @ + 1,
                                  !.delays = Append(@, DB_RETRY_DELAY_MS)]]
        ELSE dbm' = [dbm EXCEPT !.slot[c] = [@ EXCEPT !.pc = "done", !.ret = "threw-fatal"]]
    /\ UNCHANGED notDbVars

DbNext == (\E c \in DbSlots : DbInit(c)) \/ (\E c \in DbSlots : DbOpen(c))

DbSpec == Init /\ [][DbNext]_vars

\* C21: once a handle has been obtained, every getDb call that begins later
\* returns that same handle (the first one opened) without an attempt to
\* open the store.
C21_LaterCallsSameHandle ==
    \A c \in DbSlots :
        (dbm.slot[c].pc = "done" /\ dbm.slot[c].openedBefore > 0)
            => /\ dbm.slot[c].ret = "handle"
               /\ dbm.slot[c].handle = 1
               /\ dbm.slot[c].attempt = 0

\* C22: however many initDb calls were made, failed or overlapping, each of
\* SIGTERM, SIGINT and beforeExit has exactly one cleanup handler once a
\* handle has been obtained, and none before.
C22_CleanupRegisteredOnce ==
    \A s \in Signals : dbm.handlers[s] = IF dbm.opened > 0 THEN 1 ELSE 0

\* a call obtained its handle at the third attempt, and two overlapping
\* calls have each opened the store
C22_Witness ==
    /\ \E c \in DbSlots : dbm.slot[c].ret = "handle" /\ dbm.slot[c].attempt = DB_MAX_RETRIES
    /\ dbm.opened = 2
    /\ \A s \in Signals : dbm.handlers[s] = 1

(***************************************************************************)
(* The branch validators applied to one name: the specification            *)
(* ValidatorSpec.                                                          *)
(***************************************************************************)
MaxNameLen == 3
\* the characters the validators single out, and "a"
NameChars ==
    {Dash, Dot, Slash, AtSign, LeftBrace, 97, 0, MaxControlCode, DelCode}
        \cup InvalidRefChars \cup RefAndShellChars
\* the characters of the multi-character rules, and "a"
CoreChars == {Dash, Dot, Slash, AtSign, LeftBrace, 97}
SeqsUpTo(chars, n) == UNION {[1..k -> chars] : k \in 0..n}
\* "a.lock", "feature/dark-mode", names of 255 and of 256 characters
LockName == <<97>> \o DotLock
FeatureName ==
    <<102, 101, 97, 116, 117, 114, 101, Slash, 100, 97, 114, 107, Dash, 109, 111, 100, 101>>
LongNames == {[i \in 1..n |-> 97] : n \in {MaxBranchLen, MaxBranchLen + 1}}
BranchNames ==
    SeqsUpTo(NameChars, 2) \cup SeqsUpTo(CoreChars, MaxNameLen)
        \cup {LockName, FeatureName} \cup LongNames

ValidatorInit ==
    /\ InitProgram
    /\ probe \in {[fn |-> "branchNameSchema", pc |-> "ready", name |-> n] : n \in BranchNames}

\* safeParse(name).success of the shared schema and of the two plugin-local copies
ValidateBranch ==
    /\ probe.fn = "branchNameSchema"
    /\ probe.pc = "ready"
    /\ probe' = [fn |-> probe.fn, pc |-> "done", name |-> probe.name,
                 shared |-> branchNameSchema(probe.name),
                 legacy |-> branchNameSchemaLegacy(probe.name),
                 local |-> branchNameSchemaLocal(probe.name)]
    /\ UNCHANGED notProbeVars

ValidatorNext == ValidateBranch

ValidatorSpec == ValidatorInit /\ [][ValidatorNext]_vars

\* the names the validator is stated to accept
ListedAccepts(name) ==
    /\ Len(name) >= 1
    /\ Len(name) <= 255
    /\ name[1] # 45
    /\ name[1] # 47 /\ name[Len(name)] # 47
    /\ \A i \in 1..(Len(name) - 1) :
        /\ ~(name[i] = 47 /\ name[i + 1] = 47)
        /\ ~(name[i] = 64 /\ name[i + 1] = 123)
        /\ ~(name[i] = 46 /\ name[i + 1] = 46)
    /\ \A i \in 1..Len(name) :
        /\ name[i] \notin {126, 94, 58, 63, 42, 91, 93, 92}
        /\ name[i] # 32
        /\ ~(name[i] \in 0..31 \/ name[i] = 127)
        /\ name[i] \notin {59, 38, 124, 96, 36, 40, 41}
    /\ name[1] # 46 /\ name[Len(name)] # 46
    /\ ~(Len(name) >= 5 /\ SubSeq(name, Len(name) - 4, Len(name)) = <<46, 108, 111, 99, 107>>)

\* C23: every branch-name validator (the shared schema and the plugin-local
\* copies) accepts a name if and only if it is non-empty, at most 255
\* characters long and has none of the listed prefixes, suffixes, substrings
\* and characters.
C23_EveryValidatorAsListed ==
    (probe.fn = "branchNameSchema" /\ probe.pc = "done") =>
        /\ probe.shared = ListedAccepts(probe.name)
        /\ probe.legacy = ListedAccepts(probe.name)
        /\ probe.local = ListedAccepts(probe.name)

(***************************************************************************)
(* isPathSafe (sync.ts) with node:path on a POSIX host, applied to one     *)
(* path and base directory: the specification PathSafeSpec.                *)
(***************************************************************************)
MaxPathLen == 3
\* process.cwd(): "/c"
Cwd == <<Slash, 99>>

\* path.isAbsolute
isAbsolute(p) == StartsWith(p, <<Slash>>)

\* p.split("/")
RECURSIVE SplitPath(_)
SplitPath(p) ==
    IF p = <<>> THEN << <<>> >>
    ELSE LET rest == SplitPath(Tail(p)) IN
         IF Head(p) = Slash THEN << <<>> >> \o rest
         ELSE << <<Head(p)>> \o rest[1] >> \o Tail(rest)

\* normalisation of the segments of an absolute path: "" and "." are dropped,
\* ".." removes the segment before it
RECURSIVE NormalizeSegments(_, _)
NormalizeSegments(segs, acc) ==
    IF segs = <<>> THEN acc
    ELSE LET seg == Head(segs) IN
         NormalizeSegments(Tail(segs),
            IF seg = <<>> \/ seg = <<Dot>> THEN acc
            ELSE IF seg = <<Dot, Dot>>
            THEN (IF acc = <<>> THEN acc ELSE SubSeq(acc, 1, Len(acc) - 1))
            ELSE Append(acc, seg))

RECURSIVE JoinSegments(_)
JoinSegments(segs) ==
    IF segs = <<>> THEN <<>> ELSE <<Slash>> \o Head(segs) \o JoinSegments(Tail(segs))

\* the segments of path.resolve(baseDir, filePath)
ResolveSegments(baseDir, filePath) ==
    LET from == IF isAbsolute(baseDir) THEN baseDir ELSE Cwd \o <<Slash>> \o baseDir
        full == IF isAbsolute(filePath) THEN filePath ELSE from \o <<Slash>> \o filePath
    IN  NormalizeSegments(SplitPath(full), <<>>)

\* path.resolve(baseDir, filePath): absolute, normalised, no trailing separator
pathResolve(baseDir, filePath) ==
    LET segs == ResolveSegments(baseDir, filePath)
    IN  IF segs = <<>> THEN <<Slash>> ELSE JoinSegments(segs)

isPathSafe(filePath, baseDir) ==
    IF isAbsolute(filePath) THEN FALSE
    ELSE IF Includes(filePath, <<Dot, Dot>>) THEN FALSE
    ELSE LET resolved == pathResolve(baseDir, filePath) IN
         IF ~StartsWith(resolved, baseDir \o <<Slash>>) /\ resolved # baseDir THEN FALSE
         ELSE TRUE

\* paths over "/", "." and "a"; base directories over "/", "." and "w"
FilePaths == SeqsUpTo({Slash, Dot, 97}, MaxPathLen)
BaseDirs == SeqsUpTo({Slash, Dot, 119}, MaxPathLen)

PathSafeInit ==
    /\ InitProgram
    /\ probe \in {[fn |-> "isPathSafe", pc |-> "ready", filePath |-> f, baseDir |-> b] :
                    f \in FilePaths, b \in BaseDirs}

ApplyIsPathSafe ==
    /\ probe.fn = "isPathSafe"
    /\ probe.pc = "ready"
    /\ probe' = [fn |-> probe.fn, pc |-> "done", filePath |-> probe.filePath,
                 baseDir |-> probe.baseDir,
                 safe |-> isPathSafe(probe.filePath, probe.baseDir)]
    /\ UNCHANGED notProbeVars

PathSafeNext == ApplyIsPathSafe

PathSafeSpec == PathSafeInit /\ [][PathSafeNext]_vars

\* base/p resolves inside base: the directory that base names is the
\* resolved path or one of its ancestors
ResolvesInside(filePath, baseDir) ==
    LET base == ResolveSegments(baseDir, <<>>)
        target == ResolveSegments(baseDir, filePath)
    IN  Len(target) >= Len(base) /\ SubSeq(target, 1, Len(base)) = base

\* C24: isPathSafe(p, base) is false for every absolute p and for every p
\* containing "..", and for every base directory string it is true for a
\* relative p without ".." whenever base/p resolves inside base.
C24_SafeWhenInside ==
    (probe.fn = "isPathSafe" /\ probe.pc = "done") =>
        /\ probe.filePath # <<>> /\ probe.filePath[1] = 47 => ~probe.safe
        /\ (\E i \in 1..(Len(probe.filePath) - 1) :
                probe.filePath[i] = 46 /\ probe.filePath[i + 1] = 46) => ~probe.safe
        /\ (/\ ~(probe.filePath # <<>> /\ probe.filePath[1] = 47)
            /\ ~(\E i \in 1..(Len(probe.filePath) - 1) :
                    probe.filePath[i] = 46 /\ probe.filePath[i + 1] = 46)
            /\ ResolvesInside(probe.filePath, probe.baseDir)) => probe.safe

(***************************************************************************)
(* listWorktreeSets (sets.ts) applied to one workspace tree: the           *)
(* specification ListSpec.                                                 *)
(***************************************************************************)
\* "main", and the directory names "a" and "B"
MainName == <<109, 97, 105, 110>>
ListNames == {<<97>>, <<66>>}
EntryNames == ListNames \cup {MainName}

\* a < b by UTF-16 code units: the order of Array.prototype.sort()
CodeUnitLess(a, b) ==
    LET n == IF Len(a) < Len(b) THEN Len(a) ELSE Len(b)
        diff == {i \in 1..n : a[i] # b[i]}
    IN  IF diff = {} THEN Len(a) < Len(b)
        ELSE LET i == CHOOSE j \in diff : \A k \in diff : j <= k IN a[i] < b[i]

\* a.localeCompare(b) < 0 for names of ASCII letters: by letter first,
\* and between names equal up to case the lower-case letter first
LocaleLess(a, b) ==
    IF ToLowerCase(a) # ToLowerCase(b) THEN CodeUnitLess(ToLowerCase(a), ToLowerCase(b))
    ELSE LET diff == {i \in 1..Len(a) : a[i] # b[i]} IN
         diff # {} /\ LET i == CHOOSE j \in diff : \A k \in diff : j <= k IN a[i] > b[i]

\* names.sort()
RECURSIVE SortCodeUnits(_)
SortCodeUnits(names) ==
    IF names = {} THEN <<>>
    ELSE LET first == CHOOSE x \in names : \A y \in names \ {x} : CodeUnitLess(x, y)
         IN  <<first>> \o SortCodeUnits(names \ {first})

\* names.sort((a, b) => a.localeCompare(b))
RECURSIVE SortLocale(_)
SortLocale(names) ==
    IF names = {} THEN <<>>
    ELSE LET first == CHOOSE x \in names : \A y \in names \ {x} : LocaleLess(x, y)
         IN  <<first>> \o SortLocale(names \ {first})

\* an entry of a set directory: absent, a file, or a directory whose .git
\* is missing, a file, a directory, or a file that lstat is denied
ChildKinds == {"absent", "file", "dir", "dir-git-file", "dir-git-dir", "dir-git-file-denied"}
ChildDirs == [ListNames -> ChildKinds]
NoChildren == [n \in ListNames |-> "absent"]

\* an entry of the workspace root: absent, a file, or a directory that
\* readdir can read or not
ListEntries ==
    {[kind |-> k, readable |-> TRUE, children |-> NoChildren] : k \in {"absent", "file"}}
        \cup [kind : {"dir"}, readable : BOOLEAN, children : ChildDirs]
\* main/ holds the repositories, here absent or with one entry whose .git is a file
MainEntries ==
    {[kind |-> "absent", readable |-> TRUE, children |-> NoChildren],
     [kind |-> "dir", readable |-> TRUE,
      children |-> [n \in ListNames |-> IF n = <<97>> THEN "dir-git-file" ELSE "absent"]]}

ListTrees ==
    {[readable |-> r, entries |-> e] :
        r \in BOOLEAN,
        e \in {f \in [EntryNames -> ListEntries \cup MainEntries] :
                /\ f[MainName] \in MainEntries
                /\ \A n \in ListNames : f[n] \in ListEntries}}

\* the entries of a set directory for which lstat(.git).isFile()
WorktreesOf(entry) == {n \in ListNames : entry.children[n] = "dir-git-file"}

\* listWorktreeSets without the test on the name of the main directory
listWorktreeSetsWithMain(tree) ==
    IF ~tree.readable THEN <<>>
    ELSE LET found == {n \in DOMAIN tree.entries :
                        /\ tree.entries[n].kind = "dir"
                        /\ tree.entries[n].readable
                        /\ WorktreesOf(tree.entries[n]) # {}}
             sorted == SortLocale(found)
         IN  [i \in 1..Len(sorted) |->
                [name |-> sorted[i],
                 repos |-> SortCodeUnits(WorktreesOf(tree.entries[sorted[i]])),
                 path |-> pathJoin(WorkspaceRoot, sorted[i])]]

listWorktreeSets(tree) ==
    IF ~tree.readable THEN <<>>
    ELSE LET found == {n \in DOMAIN tree.entries :
                        /\ tree.entries[n].kind = "dir"
                        /\ n # MainName
                        /\ tree.entries[n].readable
                        /\ WorktreesOf(tree.entries[n]) # {}}
             sorted == SortLocale(found)
         IN  [i \in 1..Len(sorted) |->
                [name |-> sorted[i],
                 repos |-> SortCodeUnits(WorktreesOf(tree.entries[sorted[i]])),
                 path |-> pathJoin(WorkspaceRoot, sorted[i])]]

ListInit ==
    /\ InitProgram
    /\ probe \in {[fn |-> "listWorktreeSets", pc |-> "ready", tree |-> t] : t \in ListTrees}

ApplyListWorktreeSets ==
    /\ probe.fn = "listWorktreeSets"
    /\ probe.pc = "ready"
    /\ probe' = [fn |-> probe.fn, pc |-> "done", tree |-> probe.tree,
                 sets |-> listWorktreeSets(probe.tree)]
    /\ UNCHANGED notProbeVars

ListNext == ApplyListWorktreeSets

ListSpec == ListInit /\ [][ListNext]_vars

\* the directories of the workspace root that hold a worktree, main excluded
HoldsWorktree(tree, n) ==
    /\ n # MainName
    /\ tree.entries[n].kind = "dir"
    /\ \E c \in ListNames : tree.entries[n].children[c] \in {"dir-git-file", "dir-git-file-denied"}
ListedNames == {probe.sets[i].name : i \in 1..Len(probe.sets)}

\* C25 as stated: the sets returned are exactly the subdirectories of the
\* root, other than main, that contain a subdirectory whose .git is a file,
\* whether or not the directories can be read.
C25_ExactlyTheSets ==
    (probe.fn = "listWorktreeSets" /\ probe.pc = "done") =>
        ListedNames = {n \in EntryNames : HoldsWorktree(probe.tree, n)}

\* C25: when the workspace root can be read, listWorktreeSets returns exactly
\* its subdirectories, other than the literal main, that can be read and
\* contain a subdirectory whose .git lstat reports as a file (none when the
\* root cannot be read); each set lists exactly those subdirectories, in
\* code-unit order; the sets are in localeCompare order of their names; the
\* call changes nothing on disk.
C25_ReadableSets ==
    [][(probe.fn = "listWorktreeSets" /\ probe.pc = "ready" /\ probe'.pc = "done") =>
        LET tree == probe.tree
            sets == probe'.sets
            expected ==
                {n \in EntryNames :
                    /\ tree.readable
                    /\ n # MainName
                    /\ tree.entries[n].kind = "dir" /\ tree.entries[n].readable
                    /\ \E c \in ListNames : tree.entries[n].children[c] = "dir-git-file"}
        IN  /\ {sets[i].name : i \in 1..Len(sets)} = expected
            /\ Len(sets) = Cardinality(expected)
            /\ \A i \in 1..Len(sets) :
                /\ {sets[i].repos[j] : j \in 1..Len(sets[i].repos)} =
                        {c \in ListNames :
                            tree.entries[sets[i].name].children[c] = "dir-git-file"}
                /\ \A j, k \in 1..Len(sets[i].repos) :
                        j < k => CodeUnitLess(sets[i].repos[j], sets[i].repos[k])
            /\ \A i, j \in 1..Len(sets) : i < j => LocaleLess(sets[i].name, sets[j].name)
            /\ probe'.tree = tree
            /\ disk' = disk]_vars

\* two sets of two worktrees each were listed beside main/, "a" before "B"
\* and in each set "B" before "a"
C25_Witness ==
    /\ probe.fn = "listWorktreeSets" /\ probe.pc = "done"
    /\ probe.tree.entries[MainName].kind = "dir"
    /\ Len(probe.sets) = 2
    /\ probe.sets[1].name = <<97>>
    /\ probe.sets[1].repos = << <<66>>, <<97>> >>
    /\ probe.sets[2].repos = << <<66>>, <<97>> >>

(***************************************************************************)
(* createWorktreeSet, listWorktreeSets and removeWorktreeSet one after the *)
(* other on one workspace (multi-repo/sets.ts): the specification          *)
(* RoundTripSpec.  The workspace holds the set directories "f" and "a-b",  *)
(* each absent, a file, or a directory with the entries "a" and "B".       *)
(***************************************************************************)
\* "f" and "a-b"
TripNames == {<<102>>, <<97, Dash, 98>>}
\* "f", "a/b" and ".."
TripBranches == {<<102>>, <<97, Slash, 98>>, <<Dot, Dot>>}
\* the repos a set is created with, in the order of the caller: "a", or "a" then "B"
TripRepoLists == {<< <<97>> >>, << <<97>>, <<66>> >>}
\* an entry of a set directory: absent, a file, a directory without .git,
\* or a worktree (a directory whose .git is a file)
TripChildKinds == {"absent", "file", "dir", "dir-git-file"}
AbsentEntry == [kind |-> "absent", readable |-> TRUE, children |-> NoChildren]
TripEntries ==
    {[kind |-> k, readable |-> TRUE, children |-> NoChildren] : k \in {"absent", "file"}}
        \cup [kind : {"dir"}, readable : BOOLEAN, children : [ListNames -> TripChildKinds]]
TripTrees == [readable : {TRUE}, entries : [TripNames -> TripEntries]]

\* a counter that is incremented whatever the outcome
TallyAlways(count, hit) == count + 1
\* successCount++, failureCount++, removedCount++ in the branch of the outcome
Tally(count, hit) == IF hit THEN count + 1 ELSE count

\* a removal that leaves the directory where it is
RemoveDirKeep(tree, name) == tree
\* rm(featurePath, { recursive: true, force: true })
RemoveDir(tree, name) == [tree EXCEPT !.entries[name] = AbsentEntry]

\* the entries readdir(featurePath) returns, in code-unit order
ReadDir(entry) == SortCodeUnits({c \in ListNames : entry.children[c] # "absent"})
\* the entries of a directory whose .git is a file
GitFileEntries(entry) == {c \in ListNames : entry.children[c] = "dir-git-file"}

TripInit ==
    /\ InitProgram
    /\ \E t \in TripTrees, b \in TripBranches, r \in TripRepoLists :
          probe = [fn |-> "roundTrip", pc |-> "ready", branch |-> b, repos |-> r,
                   tree |-> t, before |-> t, atRemove |-> t, i |-> 0,
                   results |-> <<>>, successCount |-> 0, failureCount |-> 0,
                   listed |-> <<>>, listedAfter |-> <<>>,
                   removedCount |-> 0, removeFailures |-> 0, errors |-> <<>>]

TripDir == sanitizeBranchForDir(probe.branch)
TripEntry == probe.tree.entries[TripDir]
AllFailed(error) ==
    [n \in 1..Len(probe.repos) |-> [repo |-> probe.repos[n], success |-> FALSE,
                                    error |-> error]]

\* createWorktreeSet, steps 1 and 2: the branch name is validated, the
\* feature directory is scanned for an entry with .git (a directory that
\* cannot be read counts as empty), then mkdir -p, which throws on a file
TripCreateBegin ==
    /\ probe.fn = "roundTrip" /\ probe.pc = "ready"
    /\ probe' =
         IF ~branchNameSchema(probe.branch)
         THEN [probe EXCEPT !.pc = "created", !.results = AllFailed("invalid-branch"),
                            !.failureCount = Len(probe.repos)]
         ELSE IF TripEntry.kind = "dir" /\ TripEntry.readable
                   /\ GitFileEntries(TripEntry) # {}
         THEN [probe EXCEPT !.pc = "created", !.results = AllFailed("contains-worktrees"),
                            !.failureCount = Len(probe.repos)]
         ELSE IF TripEntry.kind = "file"
         THEN [probe EXCEPT !.pc = "threw"]
         ELSE [probe EXCEPT !.pc = "repos", !.i = 1,
                            !.tree.entries[TripDir].kind = "dir"]
    /\ UNCHANGED notProbeVars

\* step 3 for one repo: git worktree add succeeds only where the path is
\* absent or an empty directory; the outcome is pushed and counted
TripCreateRepo ==
    /\ probe.fn = "roundTrip" /\ probe.pc = "repos"
    /\ probe.i <= Len(probe.repos)
    /\ LET repo == probe.repos[probe.i] IN
       \E ok \in (IF TripEntry.children[repo] \in {"absent", "dir"} THEN BOOLEAN
                  ELSE {FALSE}) :
          probe' = [probe EXCEPT
                      !.i = @ + 1,
                      !.tree.entries[TripDir].children[repo] =
                            IF ok THEN "dir-git-file" ELSE @,
                      !.results = Append(@, [repo |-> repo, success |-> ok,
                                             error |-> IF ok THEN "none" ELSE "git"]),
                      !.successCount = Tally(@, ok),
                      !.failureCount = Tally(@, ~ok)]
    /\ UNCHANGED notProbeVars

\* step 8: a terminal when a repo succeeded, else rm -rf of the feature
\* directory, whose failure is logged
TripCreateFinish ==
    /\ probe.fn = "roundTrip" /\ probe.pc = "repos"
    /\ probe.i > Len(probe.repos)
    /\ \E rmOk \in BOOLEAN :
          probe' = [probe EXCEPT
                      !.pc = "created",
                      !.tree = IF probe.successCount = 0 /\ rmOk
                               THEN RemoveDir(@, TripDir) ELSE @]
    /\ UNCHANGED notProbeVars

\* listWorktreeSets after createWorktreeSet and after removeWorktreeSet
TripList ==
    /\ probe.fn = "roundTrip" /\ probe.pc \in {"created", "threw", "removed"}
    /\ probe' = IF probe.pc = "removed"
                THEN [probe EXCEPT !.pc = "done",
                                   !.listedAfter = listWorktreeSets(probe.tree)]
                ELSE [probe EXCEPT !.pc = "listed",
                                   !.listed = listWorktreeSets(probe.tree)]
    /\ UNCHANGED notProbeVars

\* removeWorktreeSet of the same branch, steps 1 and 2: lstat and readdir
TripRemoveBegin ==
    /\ probe.fn = "roundTrip" /\ probe.pc = "listed"
    /\ branchNameSchema(probe.branch)
    /\ probe' =
         IF TripEntry.kind = "absent"
         THEN [probe EXCEPT !.pc = "removed", !.atRemove = probe.tree,
                            !.errors = <<"not-found">>]
         ELSE IF TripEntry.kind = "file"
         THEN [probe EXCEPT !.pc = "removed", !.atRemove = probe.tree,
                            !.errors = <<"not-a-directory">>]
         ELSE IF ~TripEntry.readable
         THEN [probe EXCEPT !.pc = "removed", !.atRemove = probe.tree,
                            !.errors = <<"readdir">>]
         ELSE [probe EXCEPT !.pc = "entries", !.atRemove = probe.tree, !.i = 1]
    /\ UNCHANGED notProbeVars

\* step 3 for one entry: skipped unless its .git is a file; then rev-parse,
\* the hooks and git worktree remove --force, counted as removed or failed
TripRemoveEntry ==
    /\ probe.fn = "roundTrip" /\ probe.pc = "entries"
    /\ probe.i <= Len(ReadDir(probe.atRemove.entries[TripDir]))
    /\ LET entry == ReadDir(probe.atRemove.entries[TripDir])[probe.i] IN
       IF TripEntry.children[entry] # "dir-git-file"
       THEN probe' = [probe EXCEPT !.i = @ + 1]
       ELSE \E outcome \in {"resolve-failed", "remove-failed", "removed"} :
               LET ok == outcome = "removed" IN
               probe' = [probe EXCEPT
                           !.i = @ + 1,
                           !.tree.entries[TripDir].children[entry] =
                                 IF ok THEN "absent" ELSE @,
                           !.removedCount = Tally(@, ok),
                           !.removeFailures = Tally(@, ~ok),
                           !.errors = IF ok THEN @ ELSE Append(@, outcome)]
    /\ UNCHANGED notProbeVars

\* step 4: rm -rf of the feature directory; a failure is one more error
TripRemoveFinish ==
    /\ probe.fn = "roundTrip" /\ probe.pc = "entries"
    /\ probe.i > Len(ReadDir(probe.atRemove.entries[TripDir]))
    /\ \E rmOk \in BOOLEAN :
          probe' = [probe EXCEPT
                      !.pc = "removed",
                      !.tree = IF rmOk THEN RemoveDir(@, TripDir) ELSE @,
                      !.errors = IF rmOk THEN @ ELSE Append(@, "rm")]
    /\ UNCHANGED notProbeVars

TripNext ==
    \/ TripCreateBegin
    \/ TripCreateRepo
    \/ TripCreateFinish
    \/ TripList
    \/ TripRemoveBegin
    \/ TripRemoveEntry
    \/ TripRemoveFinish

RoundTripSpec == TripInit /\ [][TripNext]_vars

\* the repos createWorktreeSet reported as created
CreatedRepos ==
    {probe.results[k].repo : k \in {n \in 1..Len(probe.results) : probe.results[n].success}}
\* the listed sets other than the one of the branch
OtherSets(listing) == SelectSeq(listing, LAMBDA s : s.name # TripDir)
SetsOfBranch(listing) == SelectSeq(listing, LAMBDA s : s.name = TripDir)

\* C37: createWorktreeSet deletes nothing that existed before the call: a
\* set directory that existed, and every entry it held, is still there when
\* the call returns, also when every repo failed and the cleanup ran.
C37_ExistingEntriesKept ==
    (probe.fn = "roundTrip" /\ probe.pc = "created") =>
        \A n \in TripNames :
            LET was == probe.before.entries[n]
                now == probe.tree.entries[n]
            IN  was.kind # "absent" =>
                    /\ now.kind = was.kind
                    /\ \A c \in ListNames :
                          was.children[c] # "absent" => now.children[c] = was.children[c]

\* what C39 says of createWorktreeSet: one result per requested repo in the
\* order of the caller, and the two counters count the results
CreateCountsHold ==
    /\ Len(probe.results) = Len(probe.repos)
    /\ \A k \in 1..Len(probe.results) : probe.results[k].repo = probe.repos[k]
    /\ probe.successCount =
          Cardinality({k \in 1..Len(probe.results) : probe.results[k].success})
    /\ probe.failureCount =
          Cardinality({k \in 1..Len(probe.results) : ~probe.results[k].success})
    /\ probe.successCount + probe.failureCount = Len(probe.repos)

\* C39 as the specification states it: on every return path of
\* createWorktreeSet the results and counters agree with the requested
\* repos, and on every return path of removeWorktreeSet removedCount +
\* failureCount is the number of entries whose .git is a file and errors
\* has at least failureCount messages.
C39_CountsOnEveryReturn ==
    probe.fn = "roundTrip" =>
        /\ probe.pc = "created" => CreateCountsHold
        /\ probe.pc \in {"removed", "done"} =>
              /\ probe.removedCount + probe.removeFailures =
                    Cardinality(GitFileEntries(probe.atRemove.entries[TripDir]))
              /\ Len(probe.errors) >= probe.removeFailures

\* C39: the same, where removeWorktreeSet counts the entries readdir
\* returned: when the feature directory cannot be read it returns both
\* counters 0 and one error, whatever the directory holds.
C39_CountsOfEntriesRead ==
    probe.fn = "roundTrip" =>
        /\ probe.pc = "created" => CreateCountsHold
        /\ probe.pc \in {"removed", "done"} =>
              /\ Len(probe.errors) >= probe.removeFailures
              /\ IF probe.atRemove.entries[TripDir].readable
                 THEN probe.removedCount + probe.removeFailures =
                          Cardinality(GitFileEntries(probe.atRemove.entries[TripDir]))
                 ELSE /\ probe.removedCount = 0 /\ probe.removeFailures = 0
                      /\ Len(probe.errors) = 1

\* "a" was created and "B" failed; removing the set, git failed to remove
\* "a" and rm failed on the directory
C39_Witness ==
    /\ probe.fn = "roundTrip" /\ probe.pc = "removed"
    /\ probe.successCount = 1 /\ probe.failureCount = 1
    /\ probe.removedCount = 0 /\ probe.removeFailures = 1
    /\ Len(probe.errors) > 1

\* C40 as the specification states it: after a createWorktreeSet with a
\* non-empty set S of created repos, listWorktreeSets holds exactly one set
\* named sanitize(branch), with the repos S sorted; after the following
\* removeWorktreeSet it holds no set of that name and every other set as
\* before.
C40_RoundTrip ==
    (probe.fn = "roundTrip" /\ CreatedRepos # {}) =>
        /\ probe.pc \in {"listed", "entries", "removed", "done"} =>
              /\ Len(SetsOfBranch(probe.listed)) = 1
              /\ SetsOfBranch(probe.listed)[1].repos = SortCodeUnits(CreatedRepos)
        /\ probe.pc = "done" =>
              /\ SetsOfBranch(probe.listedAfter) = <<>>
              /\ OtherSets(probe.listedAfter) = OtherSets(probe.listed)

\* C40: the same for a set directory that can be read and a removal whose
\* rm of the directory succeeded; every other set is listed as before in
\* every case.
C40_RoundTripReadable ==
    (probe.fn = "roundTrip" /\ CreatedRepos # {}) =>
        /\ (probe.pc \in {"listed", "entries", "removed", "done"}
              /\ probe.before.entries[TripDir].readable) =>
              /\ Len(SetsOfBranch(probe.listed)) = 1
              /\ SetsOfBranch(probe.listed)[1].repos = SortCodeUnits(CreatedRepos)
              /\ SetsOfBranch(probe.listed)[1].path = getFeaturePath(WorkspaceRoot, probe.branch)
        /\ probe.pc = "done" =>
              /\ OtherSets(probe.listedAfter) = OtherSets(probe.listed)
              /\ (probe.before.entries[TripDir].readable
                    /\ \A k \in 1..Len(probe.errors) : probe.errors[k] # "rm")
                  => SetsOfBranch(probe.listedAfter) = <<>>

\* the set of branch a/b was created with "a" and "B" and listed as a-b with
\* the repos "B", "a"; its removal failed for one worktree, the directory
\* was removed, and the set f is listed before and after
C40_Witness ==
    /\ probe.fn = "roundTrip" /\ probe.pc = "done"
    /\ probe.branch = <<97, Slash, 98>>
    /\ CreatedRepos = {<<97>>, <<66>>}
    /\ Len(SetsOfBranch(probe.listed)) = 1
    /\ SetsOfBranch(probe.listed)[1].name = <<97, Dash, 98>>
    /\ SetsOfBranch(probe.listed)[1].repos = << <<66>>, <<97>> >>
    /\ probe.removeFailures = 1
    /\ Len(probe.listed) > 1
    /\ Len(probe.listedAfter) = 1
    /\ probe.listedAfter[1].name = <<102>>

(***************************************************************************)
(* getProjectId and the single-repo worktree path (get-project-id.ts,      *)
(* state.ts, createWorktree): the specification ProjectSpec.               *)
(***************************************************************************)
\* createWorktree calls for one project and branch
MaxProjectCalls == 2
\* os.homedir() and the project roots, as path segments
Home == <<"home">>
ProjectRoots == {<<"r">>, <<"home">>, <<"home", "s">>}
\* "f" and "a/b"
ProjectBranches == {<<102>>, <<97, Slash, 98>>}

\* identities: a 40-hex root commit, a 16-hex path hash, anything else
Sha(n) == [kind |-> "sha", of |-> <<"commit", n>>]
Junk == [kind |-> "junk", of |-> <<>>]
NoId == [kind |-> "none", of |-> <<>>]
Threw == [kind |-> "threw", of |-> <<>>]
\* sha256(projectRoot).slice(0, 16)
hashPath(projectRoot) == [kind |-> "hash", of |-> projectRoot]
\* /^[a-f0-9]{40}$/i and /^[a-f0-9]{16}$/i
IsCommitId(id) == id.kind = "sha"
IsPathHash(id) == id.kind = "hash"

\* .git of the project root: missing, a directory, a file with a usable
\* gitdir, a file without a gitdir line, a file whose gitdir does not resolve
GitKinds == {"none", "dir", "file", "file-invalid", "file-unresolved"}
\* the content of <gitDir>/opencode when the first call begins
CacheContents == {NoId, Sha(1), Sha(2), Junk} \cup {hashPath(r) : r \in ProjectRoots}
\* stdout of git rev-list --max-parents=0 --all, one id per line
RevListOutputs == {<<>>, <<Sha(1)>>, <<Sha(2), Sha(1)>>, <<Junk>>}

\* output.split("\n").filter(Boolean).map(trim).sort()[0]
FirstRoot(output) ==
    IF \E i \in 1..Len(output) : output[i] = Sha(1) THEN Sha(1) ELSE output[1]

\* what Promise.race(...).catch(() => 1) yields for a timeout, read as an exit code 0
RaceExitCodeTimeoutZero(outcome) ==
    IF outcome.timedOut THEN 0 ELSE outcome.code

\* what Promise.race([proc.exited, timeout]).catch(() => 1) yields
RaceExitCode(outcome) ==
    IF outcome.timedOut THEN 1 ELSE outcome.code

\* path.join(os.homedir(), ".local", "share", "opencode", "worktree", projectId, branch)
getWorktreePathOf(projectId, branch) ==
    Home \o <<".local", "share", "opencode", "worktree", projectId, branch>>

\* createWorktree of src/plugin/worktree.ts: path.join(repoRoot, ".opencode", "worktrees", branch)
LegacyWorktreePath(repoRoot, branch) == repoRoot \o <<".opencode", "worktrees", branch>>

NoPath == <<>>

ProjectInit ==
    /\ InitProgram
    /\ probe \in
        {[fn |-> "getProjectId", pc |-> "ready", root |-> r, branch |-> b, gitKind |-> g,
          cache |-> c, cacheBefore |-> c, proc |-> "none", timer |-> "unset",
          exitCode |-> 0, ret |-> NoId, path |-> NoPath, legacyPath |-> NoPath,
          prevPath |-> NoPath, calls |-> 1] :
            r \in ProjectRoots, b \in ProjectBranches, g \in GitKinds, c \in CacheContents}

\* getProjectId returned id (or threw): getWorktreePath joins it with the
\* branch; the legacy createWorktree joins the root with the branch
ProjectDone(t, id) ==
    [t EXCEPT !.pc = "done", !.ret = id,
              !.path = IF id = Threw THEN NoPath ELSE getWorktreePathOf(id, t.branch),
              !.legacyPath = LegacyWorktreePath(t.root, t.branch)]

\* getProjectId up to the spawn of git rev-list
ProjectBegin ==
    /\ probe.fn = "getProjectId"
    /\ probe.pc = "ready"
    /\ IF probe.gitKind = "none" THEN probe' = ProjectDone(probe, hashPath(probe.root))
       ELSE IF probe.gitKind \in {"file-invalid", "file-unresolved"}
       THEN probe' = ProjectDone(probe, Threw)
       ELSE IF IsCommitId(probe.cache) \/ IsPathHash(probe.cache)
       THEN probe' = ProjectDone(probe, probe.cache)
       ELSE \E spawned \in BOOLEAN :
            probe' = IF spawned
                     THEN [probe EXCEPT !.pc = "racing", !.proc = "running", !.timer = "set"]
                     ELSE ProjectDone(probe, hashPath(probe.root))
    /\ UNCHANGED notProbeVars

\* what follows the race: exit code 0 reads stdout, caches and returns the
\* first root commit; anything else, or no usable output, is the path hash
AfterRace(t, exitCode, output) ==
    IF exitCode = 0 /\ Len(output) > 0 /\ IsCommitId(FirstRoot(output))
    THEN {ProjectDone([t EXCEPT !.exitCode = exitCode,
                                !.cache = IF written THEN FirstRoot(output) ELSE @],
                      FirstRoot(output)) : written \in BOOLEAN}
    ELSE {ProjectDone([t EXCEPT !.exitCode = exitCode], hashPath(t.root))}

\* git rev-list exits before the timeout
ProjectExited ==
    /\ probe.fn = "getProjectId"
    /\ probe.pc = "racing"
    /\ \E code \in {0, 1}, output \in RevListOutputs :
        probe' \in AfterRace([probe EXCEPT !.proc = "exited"], RaceExitCode([timedOut |-> FALSE, code |-> code]), output)
    /\ UNCHANGED notProbeVars

\* the timeout fires first: proc.kill(), the race rejects; the output is
\* what git had written by then
ProjectTimeout ==
    /\ probe.fn = "getProjectId"
    /\ probe.pc = "racing"
    /\ \E output \in RevListOutputs :
        probe' \in AfterRace([probe EXCEPT !.proc = "killed", !.timer = "fired"],
                             RaceExitCode([timedOut |-> TRUE, code |-> 0]), output)
    /\ UNCHANGED notProbeVars

\* the timer is never cleared: it fires after git has exited, proc.kill()
\* then finds no process
ProjectLateTimer ==
    /\ probe.fn = "getProjectId"
    /\ probe.pc = "done"
    /\ probe.proc = "exited"
    /\ probe.timer = "set"
    /\ probe' = [probe EXCEPT !.timer = "fired-late"]
    /\ UNCHANGED notProbeVars

\* createWorktree is called again for the same project and branch
ProjectAgain ==
    /\ probe.fn = "getProjectId"
    /\ probe.pc = "done"
    /\ probe.calls < MaxProjectCalls
    /\ probe' = [probe EXCEPT !.pc = "ready", !.calls = @ + 1, !.prevPath = probe.path,
                              !.cacheBefore = probe.cache, !.proc = "none",
                              !.timer = "unset", !.exitCode = 0, !.ret = NoId,
                              !.path = NoPath, !.legacyPath = NoPath]
    /\ UNCHANGED notProbeVars

ProjectNext ==
    ProjectBegin \/ ProjectExited \/ ProjectTimeout \/ ProjectLateTimer \/ ProjectAgain

ProjectSpec == ProjectInit /\ [][ProjectNext]_vars

\* C26: the worktree path createWorktree computes is not under the
\* repository root, and a later createWorktree for the same project and
\* branch computes the same path.
C26_SamePathOutsideRoot ==
    (probe.fn = "getProjectId" /\ probe.pc = "done" /\ probe.ret # Threw) =>
        /\ ~StartsWith(probe.path, probe.root)
        /\ ~StartsWith(probe.legacyPath, probe.root)
        /\ probe.prevPath # NoPath => probe.path = probe.prevPath


\* C29: when the timeout fires before git rev-list has exited, the
\* subprocess is killed and the call ends as after a failed git command:
\* it returns the path hash of projectRoot and leaves the cache file as it was.
C29_TimeoutIsFailure ==
    (probe.fn = "getProjectId" /\ probe.pc = "done" /\ probe.timer = "fired") =>
        /\ probe.proc = "killed"
        /\ probe.exitCode # 0
        /\ probe.ret = [kind |-> "hash", of |-> probe.root]
        /\ probe.cache = probe.cacheBefore

\* a second call timed out after the first had failed to write the cache
C29_Witness ==
    /\ probe.fn = "getProjectId" /\ probe.pc = "done"
    /\ probe.timer = "fired"
    /\ probe.proc = "killed"
    /\ probe.calls = 2
    /\ probe.ret = [kind |-> "hash", of |-> probe.root]
    /\ probe.prevPath # probe.path

(***************************************************************************)
(* escapeBash, escapeAppleScript and escapeBatch (terminal.ts) applied to  *)
(* one string: the specification EscapeSpec.                               *)
(***************************************************************************)
MaxEscapeLen == 3
Backslash == 92
DoubleQuote == 34
Dollar == 36
Backtick == 96
Bang == 33
Newline == 10
Space == 32
Percent == 37
Caret == 94
Ampersand == 38
LessThan == 60
GreaterThan == 62
Pipe == 124

\* s.replace(/c/g, replacement) for a one-character pattern
RECURSIVE ReplaceAll(_, _, _)
ReplaceAll(s, c, replacement) ==
    IF s = <<>> THEN <<>>
    ELSE (IF Head(s) = c THEN replacement ELSE <<Head(s)>>)
            \o ReplaceAll(Tail(s), c, replacement)

escapeBash(s) ==
    LET s1 == ReplaceAll(s, Backslash, <<Backslash, Backslash>>)
        s2 == ReplaceAll(s1, DoubleQuote, <<Backslash, DoubleQuote>>)
        s3 == ReplaceAll(s2, Dollar, <<Backslash, Dollar>>)
        s4 == ReplaceAll(s3, Backtick, <<Backslash, Backtick>>)
        s5 == ReplaceAll(s4, Bang, <<Backslash, Bang>>)
    IN  ReplaceAll(s5, Newline, <<Space>>)

escapeAppleScript(str) ==
    LET s1 == ReplaceAll(str, Backslash, <<Backslash, Backslash>>)
        s2 == ReplaceAll(s1, DoubleQuote, <<Backslash, DoubleQuote>>)
    IN  ReplaceAll(s2, Dollar, <<Backslash, Dollar>>)

\* escapeBatch with the replacement of "^" made last
escapeBatchCaretLast(s) ==
    LET s1 == ReplaceAll(s, Percent, <<Percent, Percent>>)
        s3 == ReplaceAll(s1, Ampersand, <<Caret, Ampersand>>)
        s4 == ReplaceAll(s3, LessThan, <<Caret, LessThan>>)
        s5 == ReplaceAll(s4, GreaterThan, <<Caret, GreaterThan>>)
        s6 == ReplaceAll(s5, Pipe, <<Caret, Pipe>>)
    IN  ReplaceAll(s6, Caret, <<Caret, Caret>>)

escapeBatch(s) ==
    LET s1 == ReplaceAll(s, Percent, <<Percent, Percent>>)
        s2 == ReplaceAll(s1, Caret, <<Caret, Caret>>)
        s3 == ReplaceAll(s2, Ampersand, <<Caret, Ampersand>>)
        s4 == ReplaceAll(s3, LessThan, <<Caret, LessThan>>)
        s5 == ReplaceAll(s4, GreaterThan, <<Caret, GreaterThan>>)
    IN  ReplaceAll(s5, Pipe, <<Caret, Pipe>>)

\* the characters the three functions replace, and "a"
EscapeChars ==
    {Backslash, DoubleQuote, Dollar, Backtick, Bang, Newline, Percent, Caret,
     Ampersand, LessThan, GreaterThan, Pipe, 97}
EscapeInputs == SeqsUpTo(EscapeChars, MaxEscapeLen)

EscapeInit ==
    /\ InitProgram
    /\ probe \in {[fn |-> "escape", pc |-> "ready", input |-> s] : s \in EscapeInputs}

ApplyEscapes ==
    /\ probe.fn = "escape"
    /\ probe.pc = "ready"
    /\ probe' = [fn |-> probe.fn, pc |-> "done", input |-> probe.input,
                 bash |-> escapeBash(probe.input),
                 apple |-> escapeAppleScript(probe.input),
                 batch |-> escapeBatch(probe.input)]
    /\ UNCHANGED notProbeVars

EscapeNext == ApplyEscapes

EscapeSpec == EscapeInit /\ [][EscapeNext]_vars

\* the concatenation of the images of the characters of s, each taken alone
RECURSIVE EachChar(_, _)
EachChar(s, image) ==
    IF s = <<>> THEN <<>> ELSE image[Head(s)] \o EachChar(Tail(s), image)
BashImage ==
    [c \in EscapeChars |->
        IF c \in {92, 34, 36, 96, 33} THEN <<92, c>> ELSE IF c = 10 THEN <<32>> ELSE <<c>>]
AppleImage == [c \in EscapeChars |-> IF c \in {92, 34, 36} THEN <<92, c>> ELSE <<c>>]
BatchImage ==
    [c \in EscapeChars |->
        IF c \in {37, 94} THEN <<c, c>> ELSE IF c \in {38, 60, 62, 124} THEN <<94, c>>
        ELSE <<c>>]

\* C28: each of escapeBash, escapeAppleScript and escapeBatch is a
\* per-character substitution: the result is the concatenation of the images
\* of the input's characters, every other character is unchanged and no
\* inserted character is escaped again.
C28_PerCharacterSubstitution ==
    (probe.fn = "escape" /\ probe.pc = "done") =>
        /\ probe.bash = EachChar(probe.input, BashImage)
        /\ probe.apple = EachChar(probe.input, AppleImage)
        /\ probe.batch = EachChar(probe.input, BatchImage)

\* "&^\" was escaped: the carets and backslashes inserted were left alone
C28_Witness ==
    /\ probe.fn = "escape" /\ probe.pc = "done"
    /\ probe.input = <<38, 94, 92>>
    /\ probe.batch = <<94, 38, 94, 94, 92>>
    /\ probe.bash = <<38, 94, 92, 92>>

(***************************************************************************)
(* The spawn paths of openTerminal (terminal.ts): the script each one      *)
(* writes and the argument vectors it hands to Bun.spawn and               *)
(* Bun.spawnSync: the specification SpawnSpec.  Strings are sequences of   *)
(* character codes.                                                        *)
(***************************************************************************)
\* os.tmpdir(): "/tmp"
TmpDir == <<47, 116, 109, 112>>
\* the values Bun.randomUUIDv7() returns here: "0", "1", "2"
Uuids == {<<48>>, <<49>>, <<50>>}
\* ".sh" and ".bat"
ShExt == <<46, 115, 104>>
BatExt == <<46, 98, 97, 116>>
\* path.join(os.tmpdir(), `worktree-${uuid}${ext}`)
ScriptPath(uuid, ext) == TmpDir \o <<47, 119, 111, 114, 107, 116, 114, 101, 101, 45>> \o uuid \o ext

\* `#!/bin/bash\ncd "${escapedCwd}" && ${escapedCommand}` (openTerminalTmux)
TmuxScriptContent(cwd, command) ==
    <<35, 33, 47, 98, 105, 110, 47, 98, 97, 115, 104, 10, 99, 100, 32, 34>> \o escapeBash(cwd)
        \o <<34, 32, 38, 38, 32>> \o escapeBash(command)
\* the same followed by `\nexec bash` (openTerminalWSL, openTerminalMacOS, openTerminalLinux)
ShScriptContent(cwd, command) == TmuxScriptContent(cwd, command) \o <<10, 101, 120, 101, 99, 32, 98, 97, 115, 104>>
\* `@echo off\r\ncd /d "${escapedCwd}"\r\n${escapedCommand}\r\ncmd /k`
BatScriptContent(cwd, command) ==
    <<64, 101, 99, 104, 111, 32, 111, 102, 102, 13, 10, 99, 100, 32, 47, 100, 32, 34>> \o escapeBatch(cwd)
        \o <<34, 13, 10>> \o escapeBatch(command) \o <<13, 10, 99, 109, 100, 32, 47, 107>>
\* `cd "${escapedCwd}" && ${escapedCommand}`: the inline command of the Ghostty case
GhosttyInlineCommand(cwd, command) ==
    <<99, 100, 32, 34>> \o escapeBash(cwd) \o <<34, 32, 38, 38, 32>> \o escapeBash(command)

\* ["tmux", "new-window", "-n", name, "-c", cwd, "-P", "-F", "#{pane_id}"]
tmuxNewWindow(name, cwd) ==
    <<<<116, 109, 117, 120>>, <<110, 101, 119, 45, 119, 105, 110, 100, 111, 119>>, <<45, 110>>, name, <<45, 99>>, cwd, <<45, 80>>, <<45, 70>>, <<35, 123, 112, 97, 110, 101, 95, 105, 100, 125>>>>

\* the script path sent without the literal flag
\* ["tmux", "send-keys", "-t", paneId, scriptPath]
tmuxSendKeysNoLiteral(paneId, scriptPath) ==
    <<<<116, 109, 117, 120>>, <<115, 101, 110, 100, 45, 107, 101, 121, 115>>, <<45, 116>>, paneId, scriptPath>>

\* ["tmux", "send-keys", "-t", paneId, "-l", scriptPath]
tmuxSendKeys(paneId, scriptPath) ==
    <<<<116, 109, 117, 120>>, <<115, 101, 110, 100, 45, 107, 101, 121, 115>>, <<45, 116>>, paneId, <<45, 108>>, scriptPath>>

\* ["tmux", "send-keys", "-t", paneId, "Enter"]
tmuxSendEnter(paneId) ==
    <<<<116, 109, 117, 120>>, <<115, 101, 110, 100, 45, 107, 101, 121, 115>>, <<45, 116>>, paneId, <<69, 110, 116, 101, 114>>>>

\* ["which", program]
whichArgv(program) ==
    <<<<119, 104, 105, 99, 104>>, program>>

\* ["wt.exe", "-d", cwd, "bash", scriptPath]
wslWindowsTerminal(cwd, scriptPath) ==
    <<<<119, 116, 46, 101, 120, 101>>, <<45, 100>>, cwd, <<98, 97, 115, 104>>, scriptPath>>

\* ["bash", scriptPath]
wslBash(scriptPath) ==
    <<<<98, 97, 115, 104>>, scriptPath>>

\* ["open", "-na", "Ghostty.app", "--args", `--working-directory=${cwd}`, "-e", "bash", "-c", command]
openGhosttyWindow(cwd, command) ==
    <<<<111, 112, 101, 110>>, <<45, 110, 97>>, <<71, 104, 111, 115, 116, 116, 121, 46, 97, 112, 112>>, <<45, 45, 97, 114, 103, 115>>,
      <<45, 45, 119, 111, 114, 107, 105, 110, 103, 45, 100, 105, 114, 101, 99, 116, 111, 114, 121, 61>> \o cwd, <<45, 101>>, <<98, 97, 115, 104>>, <<45, 99>>, command>>

\* ["osascript", "-e", appleScript]: the script ends in `write text "${escapedPath}"`
openItermTab(scriptPath) ==
    <<<<111, 115, 97, 115, 99, 114, 105, 112, 116>>, <<45, 101>>,
      <<116, 101, 108, 108, 32, 97, 112, 112, 108, 105, 99, 97, 116, 105, 111, 110, 32, 34, 105, 84, 101, 114, 109, 34, 32, 119, 114, 105, 116, 101, 32, 116, 101, 120, 116, 32, 34>> \o escapeAppleScript(scriptPath) \o <<34>>>>

\* ["kitty", "@", "launch", "--type", "tab", "--cwd", cwd, "--", "bash", scriptPath]
openKittyTabRemote(cwd, scriptPath) ==
    <<<<107, 105, 116, 116, 121>>, <<64>>, <<108, 97, 117, 110, 99, 104>>, <<45, 45, 116, 121, 112, 101>>, <<116, 97, 98>>, <<45, 45, 99, 119, 100>>, cwd, <<45, 45>>, <<98, 97, 115, 104>>, scriptPath>>

\* ["kitty", "--directory", cwd, "-e", "bash", scriptPath]
openKittyTabWindow(cwd, scriptPath) ==
    <<<<107, 105, 116, 116, 121>>, <<45, 45, 100, 105, 114, 101, 99, 116, 111, 114, 121>>, cwd, <<45, 101>>, <<98, 97, 115, 104>>, scriptPath>>

\* ["alacritty", "--working-directory", cwd, "-e", "bash", scriptPath]
openAlacrittyWindow(cwd, scriptPath) ==
    <<<<97, 108, 97, 99, 114, 105, 116, 116, 121>>, <<45, 45, 119, 111, 114, 107, 105, 110, 103, 45, 100, 105, 114, 101, 99, 116, 111, 114, 121>>, cwd, <<45, 101>>, <<98, 97, 115, 104>>, scriptPath>>

\* ["wezterm", "cli", "spawn", "--cwd", cwd, "--", "bash", scriptPath]
openWezterm(cwd, scriptPath) ==
    <<<<119, 101, 122, 116, 101, 114, 109>>, <<99, 108, 105>>, <<115, 112, 97, 119, 110>>, <<45, 45, 99, 119, 100>>, cwd, <<45, 45>>, <<98, 97, 115, 104>>, scriptPath>>

\* ["foot", "--working-directory", cwd, "bash", scriptPath]
openFoot(cwd, scriptPath) ==
    <<<<102, 111, 111, 116>>, <<45, 45, 119, 111, 114, 107, 105, 110, 103, 45, 100, 105, 114, 101, 99, 116, 111, 114, 121>>, cwd, <<98, 97, 115, 104>>, scriptPath>>

\* cwd is a spawn option here, not an argument
\* ["ghostty", "-e", "bash", scriptPath]
openGhosttyLinux(scriptPath) ==
    <<<<103, 104, 111, 115, 116, 116, 121>>, <<45, 101>>, <<98, 97, 115, 104>>, scriptPath>>

\* ["gnome-terminal", "--working-directory", cwd, "--", "bash", scriptPath]
openGnomeTerminal(cwd, scriptPath) ==
    <<<<103, 110, 111, 109, 101, 45, 116, 101, 114, 109, 105, 110, 97, 108>>, <<45, 45, 119, 111, 114, 107, 105, 110, 103, 45, 100, 105, 114, 101, 99, 116, 111, 114, 121>>, cwd, <<45, 45>>, <<98, 97, 115, 104>>, scriptPath>>

\* ["konsole", "--workdir", cwd, "-e", "bash", scriptPath]
openKonsole(cwd, scriptPath) ==
    <<<<107, 111, 110, 115, 111, 108, 101>>, <<45, 45, 119, 111, 114, 107, 100, 105, 114>>, cwd, <<45, 101>>, <<98, 97, 115, 104>>, scriptPath>>

\* ["xfce4-terminal", "--working-directory", cwd, "-x", "bash", scriptPath]
openXfce4Terminal(cwd, scriptPath) ==
    <<<<120, 102, 99, 101, 52, 45, 116, 101, 114, 109, 105, 110, 97, 108>>, <<45, 45, 119, 111, 114, 107, 105, 110, 103, 45, 100, 105, 114, 101, 99, 116, 111, 114, 121>>, cwd, <<45, 120>>, <<98, 97, 115, 104>>, scriptPath>>

\* ["xdg-terminal-exec", "--", "bash", scriptPath]
openXdgTerminalExec(scriptPath) ==
    <<<<120, 100, 103, 45, 116, 101, 114, 109, 105, 110, 97, 108, 45, 101, 120, 101, 99>>, <<45, 45>>, <<98, 97, 115, 104>>, scriptPath>>

\* ["x-terminal-emulator", "-e", "bash", scriptPath]
openXTerminalEmulator(scriptPath) ==
    <<<<120, 45, 116, 101, 114, 109, 105, 110, 97, 108, 45, 101, 109, 117, 108, 97, 116, 111, 114>>, <<45, 101>>, <<98, 97, 115, 104>>, scriptPath>>

\* ["xterm", "-e", "bash", scriptPath]
openXterm(scriptPath) ==
    <<<<120, 116, 101, 114, 109>>, <<45, 101>>, <<98, 97, 115, 104>>, scriptPath>>

\* ["open", "-b", "dev.warp.Warp-Stable", scriptPath]
openWarpWindow(scriptPath) ==
    <<<<111, 112, 101, 110>>, <<45, 98>>, <<100, 101, 118, 46, 119, 97, 114, 112, 46, 87, 97, 114, 112, 45, 83, 116, 97, 98, 108, 101>>, scriptPath>>

\* ["open", "-a", "Terminal", scriptPath]
openTerminalAppWindow(scriptPath) ==
    <<<<111, 112, 101, 110>>, <<45, 97>>, <<84, 101, 114, 109, 105, 110, 97, 108>>, scriptPath>>

\* ["where", "wt"]
whereWt ==
    <<<<119, 104, 101, 114, 101>>, <<119, 116>>>>

\* ["wt.exe", "-d", cwd, "cmd", "/k", scriptPath]
windowsTerminal(cwd, scriptPath) ==
    <<<<119, 116, 46, 101, 120, 101>>, <<45, 100>>, cwd, <<99, 109, 100>>, <<47, 107>>, scriptPath>>

\* ["cmd", "/c", "start", "", scriptPath]
windowsCmdStart(scriptPath) ==
    <<<<99, 109, 100>>, <<47, 99>>, <<115, 116, 97, 114, 116>>, <<>>, scriptPath>>

\* the program names handed to `which`
ProgramName(name) ==
    CASE name = "xdg-terminal-exec" -> <<120, 100, 103, 45, 116, 101, 114, 109, 105, 110, 97, 108, 45, 101, 120, 101, 99>>
      [] name = "x-terminal-emulator" -> <<120, 45, 116, 101, 114, 109, 105, 110, 97, 108, 45, 101, 109, 117, 108, 97, 116, 111, 114>>
      [] name = "kitty" -> <<107, 105, 116, 116, 121>>
      [] name = "alacritty" -> <<97, 108, 97, 99, 114, 105, 116, 116, 121>>
      [] name = "wezterm" -> <<119, 101, 122, 116, 101, 114, 109>>
      [] name = "ghostty" -> <<103, 104, 111, 115, 116, 116, 121>>
      [] name = "foot" -> <<102, 111, 111, 116>>
      [] name = "gnome-terminal" -> <<103, 110, 111, 109, 101, 45, 116, 101, 114, 109, 105, 110, 97, 108>>
      [] name = "konsole" -> <<107, 111, 110, 115, 111, 108, 101>>
      [] name = "xfce4-terminal" -> <<120, 102, 99, 101, 52, 45, 116, 101, 114, 109, 105, 110, 97, 108>>
      [] name = "xterm" -> <<120, 116, 101, 114, 109>>
      [] name = "wt.exe" -> <<119, 116, 46, 101, 120, 101>>

\* stdout of `tmux new-window -P -F #{pane_id}`, trimmed: "%1"
PaneId == <<37, 49>>
\* the cwd values: "/w" and "/w$"; the commands: "oc" and "o$%"
SpawnCwds == {<<47, 119>>, <<47, 119, 36>>}
SpawnCommands == {<<111, 99>>, <<111, 36, 37>>}
\* the window name: "wt"
SpawnName == <<119, 116>>
SpawnPaths == {"tmux", "wsl", "macos", "windows", "linux"}
MacTerminals == {"ghostty", "iterm", "warp", "kitty", "alacritty", "terminal"}
LinuxTerminals ==
    {"none", "kitty", "wezterm", "alacritty", "ghostty", "foot", "gnome-terminal", "konsole"}

\* Bun.randomUUIDv7(): a value never returned before
randomUUIDv7(issued) == Uuids \ issued

\* the argument vector of the opener of one terminal
OpenerArgv(name, cwd, scriptPath) ==
    CASE name = "alacritty" -> openAlacrittyWindow(cwd, scriptPath)
      [] name = "wezterm" -> openWezterm(cwd, scriptPath)
      [] name = "ghostty" -> openGhosttyLinux(scriptPath)
      [] name = "foot" -> openFoot(cwd, scriptPath)
      [] name = "gnome-terminal" -> openGnomeTerminal(cwd, scriptPath)
      [] name = "konsole" -> openKonsole(cwd, scriptPath)
      [] name = "xfce4-terminal" -> openXfce4Terminal(cwd, scriptPath)
      [] name = "xdg-terminal-exec" -> openXdgTerminalExec(scriptPath)
      [] name = "x-terminal-emulator" -> openXTerminalEmulator(scriptPath)
      [] name = "xterm" -> openXterm(scriptPath)
      [] name = "iterm" -> openItermTab(scriptPath)
      [] name = "warp" -> openWarpWindow(scriptPath)
      [] name = "terminal" -> openTerminalAppWindow(scriptPath)

\* What an opener does: the vectors it hands over and whether its Result is
\* ok.  openKittyTab hands over the remote-control vector and, when that
\* exits non-zero, the window vector; every spawn may throw.
OpenerRuns(name, cwd, scriptPath) ==
    IF name = "kitty"
    THEN {[spawns |-> <<openKittyTabRemote(cwd, scriptPath)>>, ok |-> TRUE],
          [spawns |-> <<openKittyTabRemote(cwd, scriptPath)>>, ok |-> FALSE],
          [spawns |-> <<openKittyTabRemote(cwd, scriptPath),
                        openKittyTabWindow(cwd, scriptPath)>>, ok |-> TRUE],
          [spawns |-> <<openKittyTabRemote(cwd, scriptPath),
                        openKittyTabWindow(cwd, scriptPath)>>, ok |-> FALSE]}
    ELSE {[spawns |-> <<OpenerArgv(name, cwd, scriptPath)>>, ok |-> b] : b \in BOOLEAN}

\* the switch of openTerminalMacOS
MacOpenerRuns(terminal, cwd, command, scriptPath) ==
    IF terminal = "ghostty"
    THEN {[spawns |-> <<openGhosttyWindow(cwd, GhosttyInlineCommand(cwd, command))>>,
           ok |-> b] : b \in BOOLEAN}
    ELSE OpenerRuns(terminal, cwd, scriptPath)

\* the call before it starts; `existing` are the scripts earlier calls left
\* in the temp directory, `spawns` the vectors handed over by the last step
SpawnCall(path, mac, linux, cwd, command, issued) ==
    [fn |-> "spawn", pc |-> "ready", path |-> path, mac |-> mac, linux |-> linux,
     cwd |-> cwd, command |-> command, name |-> SpawnName, issued |-> issued,
     existing |-> {ScriptPath(u, e) : u \in issued, e \in {ShExt, BatExt}},
     written |-> <<>>, spawns |-> <<>>, i |-> 0, result |-> "none"]

SpawnInit ==
    /\ InitProgram
    /\ \E cwd \in SpawnCwds, command \in SpawnCommands, issued \in {{}, {<<48>>}} :
          probe \in {SpawnCall(p, "terminal", "none", cwd, command, issued) :
                        p \in {"tmux", "wsl", "windows"}}
                    \cup {SpawnCall("macos", m, "none", cwd, command, issued) :
                            m \in MacTerminals}
                    \cup {SpawnCall("linux", "terminal", l, cwd, command, issued) :
                            l \in LinuxTerminals}

SpawnFile(scriptPath, content) == [path |-> scriptPath, content |-> content]
SpawnEnd(p, u, written, spawns, ok) ==
    [p EXCEPT !.pc = "done", !.issued = @ \cup u, !.written = @ \o written,
              !.spawns = spawns, !.result = IF ok THEN "ok" ELSE "err"]

\* openTerminalTmux
SpawnTmux ==
    /\ probe.fn = "spawn" /\ probe.pc = "ready" /\ probe.path = "tmux"
    /\ \E u \in randomUUIDv7(probe.issued), writeOk \in BOOLEAN, exitCode \in {0, 1} :
          LET scriptPath == ScriptPath(u, ShExt)
              file == SpawnFile(scriptPath, TmuxScriptContent(probe.cwd, probe.command))
              create == tmuxNewWindow(probe.name, probe.cwd)
          IN  probe' =
                IF ~writeOk THEN SpawnEnd(probe, {u}, <<>>, <<>>, FALSE)
                ELSE IF exitCode # 0 THEN SpawnEnd(probe, {u}, <<file>>, <<create>>, FALSE)
                ELSE SpawnEnd(probe, {u}, <<file>>,
                              <<create, tmuxSendKeys(PaneId, scriptPath),
                                tmuxSendEnter(PaneId)>>, TRUE)
    /\ UNCHANGED notProbeVars

\* openTerminalWSL
SpawnWSL ==
    /\ probe.fn = "spawn" /\ probe.pc = "ready" /\ probe.path = "wsl"
    /\ \E u \in randomUUIDv7(probe.issued), writeOk \in BOOLEAN, wtExit \in {0, 1},
          spawnOk \in BOOLEAN :
          LET scriptPath == ScriptPath(u, ShExt)
              file == SpawnFile(scriptPath, ShScriptContent(probe.cwd, probe.command))
              check == whichArgv(ProgramName("wt.exe"))
          IN  probe' =
                IF ~writeOk THEN SpawnEnd(probe, {u}, <<>>, <<>>, FALSE)
                ELSE IF wtExit = 0
                THEN SpawnEnd(probe, {u}, <<file>>,
                              <<check, wslWindowsTerminal(probe.cwd, scriptPath)>>, spawnOk)
                ELSE SpawnEnd(probe, {u}, <<file>>, <<check, wslBash(scriptPath)>>, spawnOk)
    /\ UNCHANGED notProbeVars

\* openTerminalMacOS
SpawnMacOS ==
    /\ probe.fn = "spawn" /\ probe.pc = "ready" /\ probe.path = "macos"
    /\ \E u \in randomUUIDv7(probe.issued), writeOk \in BOOLEAN :
          LET scriptPath == ScriptPath(u, ShExt)
              file == SpawnFile(scriptPath, ShScriptContent(probe.cwd, probe.command))
          IN  IF ~writeOk THEN probe' = SpawnEnd(probe, {u}, <<>>, <<>>, FALSE)
              ELSE \E run \in MacOpenerRuns(probe.mac, probe.cwd, probe.command, scriptPath) :
                      probe' = SpawnEnd(probe, {u}, <<file>>, run.spawns, run.ok)
    /\ UNCHANGED notProbeVars

\* openTerminalWindows: the wt.exe branch, then the cmd.exe fallback with a
\* script of its own
SpawnWindows ==
    /\ probe.fn = "spawn" /\ probe.pc = "ready" /\ probe.path = "windows"
    /\ \E wtExit \in {0, 1}, u1 \in randomUUIDv7(probe.issued),
          write1Ok \in BOOLEAN, spawn1Ok \in BOOLEAN :
          LET path1 == ScriptPath(u1, BatExt)
              file1 == SpawnFile(path1, BatScriptContent(probe.cwd, probe.command))
              first == IF wtExit # 0 THEN [u |-> {}, written |-> <<>>, spawns |-> <<whereWt>>]
                       ELSE IF ~write1Ok
                       THEN [u |-> {u1}, written |-> <<>>, spawns |-> <<whereWt>>]
                       ELSE [u |-> {u1}, written |-> <<file1>>,
                             spawns |-> <<whereWt, windowsTerminal(probe.cwd, path1)>>]
          IN  IF wtExit = 0 /\ write1Ok /\ spawn1Ok
              THEN probe' = SpawnEnd(probe, first.u, first.written, first.spawns, TRUE)
              ELSE \E u2 \in randomUUIDv7(probe.issued \cup first.u),
                      write2Ok \in BOOLEAN, spawn2Ok \in BOOLEAN :
                      LET path2 == ScriptPath(u2, BatExt)
                          file2 == SpawnFile(path2,
                                             BatScriptContent(probe.cwd, probe.command))
                      IN  probe' =
                            IF ~write2Ok
                            THEN SpawnEnd(probe, first.u \cup {u2}, first.written,
                                          first.spawns, FALSE)
                            ELSE SpawnEnd(probe, first.u \cup {u2},
                                          first.written \o <<file2>>,
                                          first.spawns \o <<windowsCmdStart(path2)>>,
                                          spawn2Ok)
    /\ UNCHANGED notProbeVars

\* openTerminalLinux: the script is written
SpawnLinuxScript ==
    /\ probe.fn = "spawn" /\ probe.pc = "ready" /\ probe.path = "linux"
    /\ \E u \in randomUUIDv7(probe.issued), writeOk \in BOOLEAN :
          LET file == SpawnFile(ScriptPath(u, ShExt),
                                ShScriptContent(probe.cwd, probe.command))
          IN  probe' =
                IF ~writeOk THEN SpawnEnd(probe, {u}, <<>>, <<>>, FALSE)
                ELSE [probe EXCEPT !.pc = "detect", !.issued = @ \cup {u},
                                   !.written = <<file>>]
    /\ UNCHANGED notProbeVars

\* openTerminalLinux step 1: the opener of the terminal detected
SpawnLinuxDetect ==
    /\ probe.fn = "spawn" /\ probe.pc = "detect"
    /\ IF probe.linux = "none"
       THEN probe' = [probe EXCEPT !.pc = "chain", !.i = 1]
       ELSE \E run \in OpenerRuns(probe.linux, probe.cwd, probe.written[1].path) :
               probe' = IF run.ok THEN SpawnEnd(probe, {}, <<>>, run.spawns, TRUE)
                        ELSE [probe EXCEPT !.pc = "chain", !.i = 1, !.spawns = run.spawns]
    /\ UNCHANGED notProbeVars

\* openTerminalLinux steps 2 to 6: `which` the candidate (xterm is not
\* looked up), run its opener, return on ok
SpawnLinuxStep ==
    /\ probe.fn = "spawn" /\ probe.pc = "chain"
    /\ LET name == LinuxChain[probe.i]
           last == probe.i = Len(LinuxChain)
           check == IF last THEN <<>> ELSE <<whichArgv(ProgramName(name))>>
       IN  \/ /\ ~last
              /\ probe' = [probe EXCEPT !.i = @ + 1, !.spawns = check]
           \/ \E run \in OpenerRuns(name, probe.cwd, probe.written[1].path) :
                 probe' = IF run.ok \/ last
                          THEN SpawnEnd(probe, {}, <<>>, check \o run.spawns, run.ok)
                          ELSE [probe EXCEPT !.i = @ + 1, !.spawns = check \o run.spawns]
    /\ UNCHANGED notProbeVars

SpawnNext ==
    \/ SpawnTmux
    \/ SpawnWSL
    \/ SpawnMacOS
    \/ SpawnWindows
    \/ SpawnLinuxScript
    \/ SpawnLinuxDetect
    \/ SpawnLinuxStep

SpawnSpec == SpawnInit /\ [][SpawnNext]_vars

\* the forms in which the command can appear in a string: as given, and as
\* escapeBash and escapeBatch leave it
CommandTexts(command) == {command, escapeBash(command), escapeBatch(command)}
MentionsCommand(argv, command) ==
    \E k \in 1..Len(argv), t \in CommandTexts(command) : Includes(argv[k], t)
\* the script the launch is about: the last one written
LastScript(p) == p.written[Len(p.written)].path
GhosttyException(p) == p.path = "macos" /\ p.mac = "ghostty"

\* C27: on every spawn path but macOS Ghostty, the command goes only into a
\* temp script whose name was never used before, no argument vector handed
\* to a terminal or multiplexer mentions the command, a launch that
\* succeeds has handed over the script path, and tmux receives the script
\* path only from `send-keys ... -l <path>`.
C27_ScriptPathNotCommand ==
    (probe.fn = "spawn") =>
        /\ \A i \in 1..Len(probe.written) :
              /\ probe.written[i].path \notin probe.existing
              /\ \A j \in 1..Len(probe.written) :
                    j # i => probe.written[j].path # probe.written[i].path
              /\ \E t \in CommandTexts(probe.command) : Includes(probe.written[i].content, t)
        /\ ~GhosttyException(probe) =>
              /\ \A n \in 1..Len(probe.spawns) :
                    ~MentionsCommand(probe.spawns[n], probe.command)
              /\ probe.result = "ok" =>
                    \E n \in 1..Len(probe.spawns) :
                        Includes(probe.spawns[n][Len(probe.spawns[n])], LastScript(probe))
        /\ probe.path = "tmux" =>
              \A n \in 1..Len(probe.spawns) : \A k \in 1..Len(probe.spawns[n]) :
                  Includes(probe.spawns[n][k], TmpDir) =>
                      /\ probe.spawns[n] = tmuxSendKeys(PaneId, LastScript(probe))
                      /\ k = Len(probe.spawns[n])
                      /\ probe.spawns[n][k - 1] = <<45, 108>>

\* tmux took the script of the command "o$%" while an older script was in
\* the temp directory: the script holds the escaped command, the keys sent
\* are the new script's path
C27_Witness ==
    /\ probe.fn = "spawn" /\ probe.pc = "done" /\ probe.path = "tmux"
    /\ probe.result = "ok"
    /\ probe.command = <<111, 36, 37>>
    /\ probe.existing # {}
    /\ Len(probe.written) = 1
    /\ Includes(probe.written[1].content, <<111, 92, 36, 37>>)
    /\ probe.spawns[2] = tmuxSendKeys(PaneId, ScriptPath(<<49>>, ShExt))


(***************************************************************************)
(* removeWorktreeSet (multi-repo/sets.ts) entry by entry, one step per     *)
(* awaited call: lstat of <entry>/.git, git rev-parse, loadWorktreeConfig, *)
(* each preDelete hook, git worktree remove: the specification             *)
(* RemoveSetSpec.  SetRemoveEntry above is the same loop body taken as one *)
(* step.                                                                   *)
(***************************************************************************)
\* ".git"
DotGit == <<Dot, 103, 105, 116>>
\* "main"
MainDir == <<109, 97, 105, 110>>
\* the entries readdir returns for the feature directory: "a", "b"
RemoveEntries == << <<97>>, <<98>> >>
\* what lstat finds at <entry>/.git: a file, a directory, nothing, or an error
GitFileKinds == {"file", "dir", "missing", "denied"}
\* the feature path: a directory, a file, absent, or a directory readdir fails on
FeatureKinds == {"dir", "file", "missing", "unreadable"}
\* the hooks "h1" and "h2"; hooks.preDelete of a repository's worktree.jsonc
HookOne == <<104, 49>>
HookTwo == <<104, 50>>
PreDeleteLists == {<<>>, <<HookOne, HookTwo>>}
\* the main repository a worktree entry may belong to: main/<entry> or main/c
MainRepoRoot(repo) == <<WorkspaceRoot[1], WorkspaceRoot[2], MainDir, repo>>
OwnersOf(entry) == {entry, <<99>>}
\* `git rev-parse --path-format=absolute --git-common-dir` in a worktree:
\* <root>/.git of the owning repository, or <root> itself when it is bare
GitCommonDirs(root) == {Append(root, DotGit), root}

\* commonDirResult.value.replace(/\/\.git$/, "")
StripDotGit(p) ==
    IF Len(p) > 0 /\ p[Len(p)] = DotGit THEN SubSeq(p, 1, Len(p) - 1) ELSE p

\* the directory git worktree remove is run from: the worktree itself
RemoveCwdWorktree(mainRepoPath, wtPath) == wtPath
\* the directory git worktree remove is run from
RemoveCwd(mainRepoPath, wtPath) == mainRepoPath

RemoveSetInputs ==
    [fn : {"removeSet"}, pc : {"ready"}, feature : {"dir"},
     kinds : [1..Len(RemoveEntries) -> GitFileKinds],
     owner : {o \in [1..Len(RemoveEntries) -> Repos] :
                \A n \in 1..Len(RemoveEntries) : o[n] \in OwnersOf(RemoveEntries[n])},
     preDelete : [Repos -> PreDeleteLists],
     i : {0}, k : {0}, mainRepoPath : {<<>>}, hooks : {<<>>}, events : {<<>>},
     removedCount : {0}, failureCount : {0}, errors : {<<>>}]

RemoveSetInit ==
    /\ InitProgram
    /\ \E p \in RemoveSetInputs, f \in FeatureKinds :
          /\ f # "dir" =>
                /\ \A n \in 1..Len(RemoveEntries) :
                      p.kinds[n] = "file" /\ p.owner[n] = RemoveEntries[n]
                /\ \A r \in Repos : p.preDelete[r] = <<>>
          /\ probe = [p EXCEPT !.feature = f]

RemoveFeaturePath == getFeaturePath(WorkspaceRoot, <<102>>)
WtPath(n) == Append(RemoveFeaturePath, RemoveEntries[n])
RemoveEvent(kind, n, cwd, path, command, ok) ==
    [kind |-> kind, entry |-> n, cwd |-> cwd, path |-> path, command |-> command,
     ok |-> ok]

\* steps 1 and 2: lstat and readdir of the feature path
RemoveSetBegin ==
    /\ probe.fn = "removeSet" /\ probe.pc = "ready"
    /\ probe' = IF probe.feature = "dir"
                THEN [probe EXCEPT !.pc = "lstat", !.i = 1]
                ELSE [probe EXCEPT !.pc = "done",
                                   !.errors = <<[what |-> probe.feature, entry |-> 0]>>]
    /\ UNCHANGED notProbeVars

\* lstat(gitFile).catch(() => null): anything but a file skips the entry
RemoveSetLstat ==
    /\ probe.fn = "removeSet" /\ probe.pc = "lstat"
    /\ probe.i <= Len(RemoveEntries)
    /\ probe' = IF probe.kinds[probe.i] = "file"
                THEN [probe EXCEPT !.pc = "resolve"]
                ELSE [probe EXCEPT !.i = @ + 1]
    /\ UNCHANGED notProbeVars

\* git rev-parse --git-common-dir in the worktree
RemoveSetResolve ==
    /\ probe.fn = "removeSet" /\ probe.pc = "resolve"
    /\ LET n == probe.i
           failed == RemoveEvent("rev-parse", n, WtPath(n), <<>>, <<>>, FALSE)
           done == RemoveEvent("rev-parse", n, WtPath(n), <<>>, <<>>, TRUE)
       IN  \/ probe' = [probe EXCEPT !.pc = "lstat", !.i = @ + 1,
                                     !.events = Append(@, failed),
                                     !.failureCount = @ + 1,
                                     !.errors = Append(@, [what |-> "resolve", entry |-> n])]
           \/ \E commonDir \in GitCommonDirs(MainRepoRoot(probe.owner[n])) :
                 probe' = [probe EXCEPT !.pc = "config",
                                        !.events = Append(@, done),
                                        !.mainRepoPath = StripDotGit(commonDir)]
    /\ UNCHANGED notProbeVars

\* loadWorktreeConfig(mainRepoPath): the file's hooks.preDelete, or the
\* defaults when the file is absent, invalid or unreadable
RemoveSetConfig ==
    /\ probe.fn = "removeSet" /\ probe.pc = "config"
    /\ \E loaded \in {probe.preDelete[probe.mainRepoPath[Len(probe.mainRepoPath)]], <<>>} :
          probe' = [probe EXCEPT
                      !.pc = IF Len(loaded) > 0 THEN "hooks" ELSE "git",
                      !.k = 1,
                      !.hooks = loaded,
                      !.events = Append(@, RemoveEvent("load-config", probe.i,
                                                       <<>>, probe.mainRepoPath, <<>>,
                                                       TRUE))]
    /\ UNCHANGED notProbeVars

\* runHooks(wtPath, config.hooks.preDelete): one command; its failure is logged
RemoveSetHook ==
    /\ probe.fn = "removeSet" /\ probe.pc = "hooks"
    /\ \E ok \in BOOLEAN :
          probe' = [probe EXCEPT
                      !.pc = IF probe.k = Len(probe.hooks) THEN "git" ELSE "hooks",
                      !.k = @ + 1,
                      !.events = Append(@, RemoveEvent("hook", probe.i, WtPath(probe.i),
                                                       <<>>, probe.hooks[probe.k], ok))]
    /\ UNCHANGED notProbeVars

\* git worktree remove --force wtPath
RemoveSetGit ==
    /\ probe.fn = "removeSet" /\ probe.pc = "git"
    /\ \E ok \in BOOLEAN :
          LET n == probe.i
              event == RemoveEvent("worktree-remove-force", n,
                                   RemoveCwd(probe.mainRepoPath, WtPath(n)),
                                   WtPath(n), <<>>, ok)
          IN  probe' = [probe EXCEPT
                          !.pc = "lstat", !.i = @ + 1,
                          !.events = Append(@, event),
                          !.removedCount = IF ok THEN @ + 1 ELSE @,
                          !.failureCount = IF ok THEN @ ELSE @ + 1,
                          !.errors = IF ok THEN @
                                     ELSE Append(@, [what |-> "remove", entry |-> n])]
    /\ UNCHANGED notProbeVars

\* step 4: rm of the feature path; a failure is one more error
RemoveSetFinish ==
    /\ probe.fn = "removeSet" /\ probe.pc = "lstat"
    /\ probe.i > Len(RemoveEntries)
    /\ \E ok \in BOOLEAN :
          probe' = [probe EXCEPT
                      !.pc = "done",
                      !.events = Append(@, RemoveEvent("rm", 0, <<>>, RemoveFeaturePath,
                                                       <<>>, ok)),
                      !.errors = IF ok THEN @ ELSE Append(@, [what |-> "rm", entry |-> 0])]
    /\ UNCHANGED notProbeVars

RemoveSetNext ==
    \/ RemoveSetBegin
    \/ RemoveSetLstat
    \/ RemoveSetResolve
    \/ RemoveSetConfig
    \/ RemoveSetHook
    \/ RemoveSetGit
    \/ RemoveSetFinish

RemoveSetSpec == RemoveSetInit /\ [][RemoveSetNext]_vars

\* what was done for entry n, in the order it was done
EventsOf(n) == SelectSeq(probe.events, LAMBDA e : e.entry = n)
\* the steps of one entry in their order
StepRank(kind) ==
    CASE kind = "rev-parse" -> 1
      [] kind = "load-config" -> 2
      [] kind = "hook" -> 3
      [] kind = "worktree-remove-force" -> 4
HookCommands(n) ==
    LET hs == SelectSeq(EventsOf(n), LAMBDA e : e.kind = "hook")
    IN  [m \in 1..Len(hs) |-> hs[m].command]
IsPrefix(s, t) == Len(s) <= Len(t) /\ SubSeq(t, 1, Len(s)) = s
Past(n) == probe.i > n \/ probe.pc = "done"

HeadRef == <<72, 69, 65, 68>>
\* args.baseBranch: absent, "", "m", "-f", "a..b", "HEAD"
BaseArgs ==
    {Unset, EnvStr(<<>>), EnvStr(<<109>>), EnvStr(<<Dash, 102>>),
     EnvStr(<<97, Dot, Dot, 98>>), EnvStr(HeadRef)}
\* args.branch: "f" and "-x"
BaseCallBranches == {<<102>>, <<Dash, 120>>}
BaseTools == {"worktree_create", "worktree_set_create", "createWorktreeSet"}

\* worktree_create.execute up to createWorktree: the branch is parsed, the
\* base branch only `if (args.baseBranch)`
worktreeCreateAdmits(branch, baseBranch) ==
    /\ branchNameSchema(branch)
    /\ Truthy(baseBranch) => branchNameSchema(baseBranch.value)

\* worktree_set_create.execute and createWorktreeSet: the branch is parsed
createWorktreeSetAdmits(branch, baseBranch) == branchNameSchema(branch)

\* `baseBranch ?? "HEAD"`
BaseOrHead(baseBranch) == IF baseBranch.defined THEN baseBranch.value ELSE HeadRef

\* the git worktree add of one repo: with `-b branch path base` unless the
\* branch exists
NoGitAdd == [called |-> FALSE, withBase |-> FALSE, base |-> <<>>]
GitWorktreeAdd(exists, baseBranch) ==
    IF exists THEN [called |-> TRUE, withBase |-> FALSE, base |-> <<>>]
    ELSE [called |-> TRUE, withBase |-> TRUE, base |-> BaseOrHead(baseBranch)]

BaseInit ==
    /\ InitProgram
    /\ probe \in [fn : {"base"}, pc : {"ready"}, tool : BaseTools,
                  branch : BaseCallBranches, baseBranch : BaseArgs, exists : BOOLEAN,
                  git : {NoGitAdd}]

BaseDone(admitted) ==
    [probe EXCEPT !.pc = "done",
                  !.git = IF admitted THEN GitWorktreeAdd(probe.exists, probe.baseBranch)
                          ELSE NoGitAdd]

\* worktree_create.execute and createWorktree
BaseWorktreeCreate ==
    /\ probe.fn = "base" /\ probe.pc = "ready" /\ probe.tool = "worktree_create"
    /\ probe' = BaseDone(worktreeCreateAdmits(probe.branch, probe.baseBranch))
    /\ UNCHANGED notProbeVars

\* worktree_set_create.execute, which calls createWorktreeSet
BaseWorktreeSetCreate ==
    /\ probe.fn = "base" /\ probe.pc = "ready" /\ probe.tool = "worktree_set_create"
    /\ probe' = BaseDone(createWorktreeSetAdmits(probe.branch, probe.baseBranch))
    /\ UNCHANGED notProbeVars

\* createWorktreeSet called with the options of the command line
BaseCreateWorktreeSet ==
    /\ probe.fn = "base" /\ probe.pc = "ready" /\ probe.tool = "createWorktreeSet"
    /\ probe' = BaseDone(createWorktreeSetAdmits(probe.branch, probe.baseBranch))
    /\ UNCHANGED notProbeVars

BaseNext ==
    \/ BaseWorktreeCreate
    \/ BaseWorktreeSetCreate
    \/ BaseCreateWorktreeSet

BaseSpec == BaseInit /\ [][BaseNext]_vars

\* C31: a base branch supplied by the caller that reaches git worktree add
\* has passed branchNameSchema.
C31_BaseValidatedBeforeGit ==
    (probe.fn = "base" /\ probe.git.withBase /\ probe.baseBranch.defined) =>
        branchNameSchema(probe.git.base)

(***************************************************************************)
(* copyFiles (sync.ts and its copy in src/plugin/worktree.ts), one step    *)
(* per entry of `files`: the specification CopySpec.                       *)
(***************************************************************************)
MaxFiles == 3
\* sourceDir "/w" and targetDir "/t"
SyncSource == <<Slash, 119>>
SyncTarget == <<Slash, 116>>
\* the configured entries: "a", "b", "/a", ".."
CopyNames == {<<97>>, <<98>>, <<Slash, 97>>, <<Dot, Dot>>}
CopyLists == SeqsUpTo(CopyNames, MaxFiles)
\* path.join(dir, name) for a name that passed isPathSafe
SyncJoin(dir, name) == pathResolve(dir, name)

\* a catch block that takes ENOENT and lets every other error through
CopyCatchesNotFoundOnly(error) == error = "ENOENT"
\* the catch block of copyFiles takes every error: it only chooses the log level
CopyCatches(error) == error \in {"ENOENT", "EIO"}

CopyInit ==
    /\ InitProgram
    /\ probe \in [fn : {"copy"}, pc : {"loop"}, files : CopyLists,
                  present : SUBSET {SyncJoin(SyncSource, <<97>>), SyncJoin(SyncSource, <<98>>)},
                  i : {1}, log : {<<>>}, target : {{}}]

CopyStep(outcome, copied) ==
    [probe EXCEPT !.i = @ + 1, !.log = Append(@, outcome), !.target = @ \cup copied]

\* `if (!isPathSafe(file, sourceDir)) continue`
CopySkipUnsafe ==
    /\ probe.fn = "copy" /\ probe.pc = "loop" /\ probe.i <= Len(probe.files)
    /\ ~isPathSafe(probe.files[probe.i], SyncSource)
    /\ probe' = CopyStep("unsafe", {})
    /\ UNCHANGED notProbeVars

\* `if (!(await sourceFile.exists())) continue`
CopySkipMissing ==
    /\ probe.fn = "copy" /\ probe.pc = "loop" /\ probe.i <= Len(probe.files)
    /\ isPathSafe(probe.files[probe.i], SyncSource)
    /\ SyncJoin(SyncSource, probe.files[probe.i]) \notin probe.present
    /\ probe' = CopyStep("missing", {})
    /\ UNCHANGED notProbeVars

\* mkdir and Bun.write: the file is copied, or one of them throws
CopyWrite ==
    /\ probe.fn = "copy" /\ probe.pc = "loop" /\ probe.i <= Len(probe.files)
    /\ isPathSafe(probe.files[probe.i], SyncSource)
    /\ SyncJoin(SyncSource, probe.files[probe.i]) \in probe.present
    /\ \/ probe' = CopyStep("copied", {SyncJoin(SyncTarget, probe.files[probe.i])})
       \/ \E error \in {"ENOENT", "EIO"} :
             probe' = IF CopyCatches(error) THEN CopyStep(error, {})
                      ELSE [probe EXCEPT !.pc = "threw", !.log = Append(@, error)]
    /\ UNCHANGED notProbeVars

\* the end of the for loop
CopyReturn ==
    /\ probe.fn = "copy" /\ probe.pc = "loop" /\ probe.i > Len(probe.files)
    /\ probe' = [probe EXCEPT !.pc = "done"]
    /\ UNCHANGED notProbeVars

CopyNext ==
    \/ CopySkipUnsafe
    \/ CopySkipMissing
    \/ CopyWrite
    \/ CopyReturn

CopySpec == CopyInit /\ [][CopyNext]_vars

\* C32: copyFiles never throws; it takes the entries one by one in list
\* order, so that when it returns every entry has been looked at once, an
\* entry that is unsafe or missing or whose copy failed has left the target
\* alone, and every safe, present entry whose copy did not fail is in the
\* target, whatever happened to the entries before it.
C32_EveryEntryProcessed ==
    (probe.fn = "copy") =>
        /\ probe.pc # "threw"
        /\ Len(probe.log) = probe.i - 1
        /\ probe.pc = "done" => Len(probe.log) = Len(probe.files)
        /\ \A n \in 1..Len(probe.log) :
              /\ probe.log[n] = "unsafe" <=> ~isPathSafe(probe.files[n], SyncSource)
              /\ probe.log[n] = "missing" <=>
                    /\ isPathSafe(probe.files[n], SyncSource)
                    /\ SyncJoin(SyncSource, probe.files[n]) \notin probe.present
              /\ probe.log[n] = "copied" =>
                    SyncJoin(SyncTarget, probe.files[n]) \in probe.target
        /\ probe.target =
              {SyncJoin(SyncTarget, probe.files[n]) :
                  n \in {m \in 1..Len(probe.log) : probe.log[m] = "copied"}}

\* "/a" was refused, the copy of "a" failed with an I/O error, and "b" was
\* copied all the same
C32_Witness ==
    /\ probe.fn = "copy" /\ probe.pc = "done"
    /\ probe.files = << <<Slash, 97>>, <<97>>, <<98>> >>
    /\ probe.log = <<"unsafe", "EIO", "copied">>
    /\ probe.target = {<<Slash, 116, Slash, 98>>}

(***************************************************************************)
(* symlinkDirs (sync.ts and its copy in src/plugin/worktree.ts), one step  *)
(* per entry of `dirs`: the specification LinkSpec.  sourceDir "/w" is the *)
(* main worktree, targetDir "/t" the new worktree.                         *)
(***************************************************************************)
MaxDirs == 2
\* the configured entries: "", ".", "a", "b", "/a"
LinkNames == {<<>>, <<Dot>>, <<97>>, <<98>>, <<Slash, 97>>}
LinkLists == SeqsUpTo(LinkNames, MaxDirs)
\* the paths of the target that are looked at: "/t", "/t/a", "/t/b"
LinkTargets == {SyncJoin(SyncTarget, n) : n \in {<<>>, <<97>>, <<98>>}}
\* p is path or lies below it
AtOrBelow(p, path) == p = path \/ StartsWith(p, path \o <<Slash>>)

\* rm(targetPath, { recursive: true, force: true })
LinkRm(target, path) ==
    [p \in DOMAIN target |-> IF AtOrBelow(p, path) THEN "absent" ELSE target[p]]
\* symlink(sourcePath, targetPath, "dir")
LinkSymlink(target, path) == [target EXCEPT ![path] = "link"]

LinkInit ==
    /\ InitProgram
    /\ \E dirs \in LinkLists,
          sources \in SUBSET {SyncJoin(SyncSource, <<97>>), SyncJoin(SyncSource, <<98>>)},
          placeholders \in SUBSET {SyncJoin(SyncTarget, <<97>>), SyncJoin(SyncTarget, <<98>>)} :
          probe = [fn |-> "link", pc |-> "loop", dirs |-> dirs, i |-> 1, log |-> <<>>,
                   directories |-> sources \cup {SyncSource},
                   target |-> [p \in LinkTargets |->
                                 IF p = SyncTarget \/ p \in placeholders THEN "dir"
                                 ELSE "absent"],
                   removed |-> <<>>]

\* `if (!isPathSafe(dir, sourceDir, log)) continue`
LinkSkipUnsafe ==
    /\ probe.fn = "link" /\ probe.pc = "loop" /\ probe.i <= Len(probe.dirs)
    /\ ~isPathSafe(probe.dirs[probe.i], SyncSource)
    /\ probe' = [probe EXCEPT !.i = @ + 1, !.log = Append(@, "unsafe")]
    /\ UNCHANGED notProbeVars

\* `if (!fileStat || !fileStat.isDirectory()) continue`
LinkSkipMissing ==
    /\ probe.fn = "link" /\ probe.pc = "loop" /\ probe.i <= Len(probe.dirs)
    /\ isPathSafe(probe.dirs[probe.i], SyncSource)
    /\ SyncJoin(SyncSource, probe.dirs[probe.i]) \notin probe.directories
    /\ probe' = [probe EXCEPT !.i = @ + 1, !.log = Append(@, "missing")]
    /\ UNCHANGED notProbeVars

\* mkdir of the parent, rm of the target path, symlink: the three succeed,
\* or mkdir or rm throws before anything is removed, or symlink throws
\* after the removal; the catch block logs the error
LinkReplace ==
    /\ probe.fn = "link" /\ probe.pc = "loop" /\ probe.i <= Len(probe.dirs)
    /\ isPathSafe(probe.dirs[probe.i], SyncSource)
    /\ SyncJoin(SyncSource, probe.dirs[probe.i]) \in probe.directories
    /\ LET targetPath == SyncJoin(SyncTarget, probe.dirs[probe.i])
           event == [entry |-> probe.i, path |-> targetPath]
       IN  \E outcome \in {"linked", "rm-threw", "symlink-threw"} :
              probe' = [probe EXCEPT
                          !.i = @ + 1,
                          !.log = Append(@, outcome),
                          !.removed = IF outcome = "rm-threw" THEN @ ELSE Append(@, event),
                          !.target =
                              CASE outcome = "linked" ->
                                     LinkSymlink(LinkRm(@, targetPath), targetPath)
                                [] outcome = "symlink-threw" -> LinkRm(@, targetPath)
                                [] OTHER -> @]
    /\ UNCHANGED notProbeVars

\* the end of the for loop
LinkReturn ==
    /\ probe.fn = "link" /\ probe.pc = "loop" /\ probe.i > Len(probe.dirs)
    /\ probe' = [probe EXCEPT !.pc = "done"]
    /\ UNCHANGED notProbeVars

LinkNext ==
    \/ LinkSkipUnsafe
    \/ LinkSkipMissing
    \/ LinkReplace
    \/ LinkReturn

LinkSpec == LinkInit /\ [][LinkNext]_vars

\* C38: symlinkDirs removes or replaces only paths strictly inside
\* targetDir: whatever entries pass isPathSafe, the empty string and "."
\* among them, the target directory itself stays the directory it was, and
\* no path is removed for an entry whose source is missing or not a
\* directory.
C38_TargetDirNeverRemoved ==
    probe.fn = "link" =>
        /\ probe.target[SyncTarget] = "dir"
        /\ \A n \in 1..Len(probe.removed) :
              /\ probe.removed[n].path # SyncTarget
              /\ StartsWith(probe.removed[n].path, SyncTarget \o <<Slash>>)
              /\ probe.log[probe.removed[n].entry] # "missing"

(***************************************************************************)
(* runHooks (shared/config.ts and its copy in src/plugin/worktree.ts), one *)
(* step per command: the specification HookSpec.                           *)
(***************************************************************************)
MaxHooks == 3
HookLists == SeqsUpTo({HookOne, HookTwo}, MaxHooks)

\* a loop that gives up at the first command that fails
NextCommandStopOnFailure(k, n, outcome) == IF outcome = "exit-0" THEN k + 1 ELSE n + 1
\* the command the for loop goes on with, whatever became of command k
NextCommand(k, n, outcome) == k + 1

HookInit ==
    /\ InitProgram
    /\ probe \in [fn : {"hooks"}, pc : {"loop"}, commands : HookLists, k : {1},
                  runs : {<<>>}, warnings : {<<>>}]

HookStep(outcome) ==
    [probe EXCEPT
       !.k = NextCommand(@, Len(probe.commands), outcome),
       !.runs = Append(@, [command |-> probe.commands[probe.k], cwd |-> SyncTarget,
                           outcome |-> outcome]),
       !.warnings = IF outcome = "exit-0" THEN @ ELSE Append(@, probe.k)]

\* Bun.spawnSync(["bash", "-c", command], {cwd}) exits with 0
HookRun ==
    /\ probe.fn = "hooks" /\ probe.pc = "loop" /\ probe.k <= Len(probe.commands)
    /\ probe' = HookStep("exit-0")
    /\ UNCHANGED notProbeVars

\* it exits with another code: log.warn with the stderr captured
HookFail ==
    /\ probe.fn = "hooks" /\ probe.pc = "loop" /\ probe.k <= Len(probe.commands)
    /\ probe' = HookStep("exit-1")
    /\ UNCHANGED notProbeVars

\* spawnSync throws: the catch block logs the error
HookThrow ==
    /\ probe.fn = "hooks" /\ probe.pc = "loop" /\ probe.k <= Len(probe.commands)
    /\ probe' = HookStep("threw")
    /\ UNCHANGED notProbeVars

HookReturn ==
    /\ probe.fn = "hooks" /\ probe.pc = "loop" /\ probe.k > Len(probe.commands)
    /\ probe' = [probe EXCEPT !.pc = "done"]
    /\ UNCHANGED notProbeVars

HookNext ==
    \/ HookRun
    \/ HookFail
    \/ HookThrow
    \/ HookReturn

HookSpec == HookInit /\ [][HookNext]_vars

\* C33: the commands run are, in order, the first commands of the list, each
\* once; when runHooks returns they are the whole list, and a warning was
\* logged for exactly the commands that exited non-zero or could not be
\* spawned.
C33_EachCommandOnceInOrder ==
    (probe.fn = "hooks") =>
        /\ Len(probe.runs) <= Len(probe.commands)
        /\ \A n \in 1..Len(probe.runs) :
              probe.runs[n].command = probe.commands[n] /\ probe.runs[n].cwd = SyncTarget
        /\ probe.pc = "done" => Len(probe.runs) = Len(probe.commands)
        /\ probe.warnings =
              SelectSeq([n \in 1..Len(probe.runs) |-> n],
                        LAMBDA n : probe.runs[n].outcome # "exit-0")

\* h1 exited non-zero, h2 could not be spawned, and the second h1 ran
C33_Witness ==
    /\ probe.fn = "hooks" /\ probe.pc = "done"
    /\ probe.commands = <<HookOne, HookTwo, HookOne>>
    /\ Len(probe.runs) = 3
    /\ probe.runs[1].outcome = "exit-1" /\ probe.runs[2].outcome = "threw"
    /\ probe.runs[3].outcome = "exit-0"
    /\ probe.warnings = <<1, 2>>

(***************************************************************************)
(* The store API called directly, in any order and with any arguments:     *)
(* the specification StoreSpec.                                            *)
(***************************************************************************)
\* "f", "a/b" and the empty string
StoreBranches == {<<102>>, <<97, Slash, 98>>, <<>>}
StorePaths == {<<"worktree", "p1">>, <<>>}
StoreSessionIds == {<<"ses", 1>>, <<"ses", 2>>, <<"ses", 3>>, <<>>}

StoreAddSession ==
    \E id \in StoreSessionIds, b \in StoreBranches, p \in StorePaths :
        LET s == [id |-> id, branch |-> b, path |-> p]
        IN  /\ sessions' = addSession(sessions, s)
            /\ lastCall' = [op |-> "addSession", arg |-> s, committed |-> sessionSchema(s),
                            prior |-> sessions]
            /\ UNCHANGED <<pending, lastWarn, notStoreVars>>

StoreRemoveSession ==
    \E b \in StoreBranches :
        /\ sessions' = removeSession(sessions, b)
        /\ lastCall' = [op |-> "removeSession", arg |-> b, committed |-> b # <<>>,
                        prior |-> sessions]
        /\ UNCHANGED <<pending, lastWarn, notStoreVars>>

StoreSetPendingSpawn ==
    \E id \in StoreSessionIds, b \in StoreBranches, p \in StorePaths :
        LET spawn == [branch |-> b, path |-> p, sessionId |-> id]
        IN  /\ pending' = setPendingSpawn(pending, spawn)
            /\ lastWarn' = IF pendingSpawnSchema(spawn)
                           THEN SpawnWarning(pending, spawn) ELSE NoWarn
            /\ lastCall' = [op |-> "setPendingSpawn", arg |-> spawn,
                            committed |-> pendingSpawnSchema(spawn)]
            /\ UNCHANGED <<sessions, notStoreVars>>

StoreSetPendingDelete ==
    \E b \in StoreBranches, p \in StorePaths :
        LET del == [branch |-> b, path |-> p]
        IN  /\ pending' = setPendingDelete(pending, del)
            /\ lastWarn' = IF pendingDeleteSchema(del)
                           THEN DeleteWarning(pending, del) ELSE NoWarn
            /\ lastCall' = [op |-> "setPendingDelete", arg |-> del,
                            committed |-> pendingDeleteSchema(del)]
            /\ UNCHANGED <<sessions, notStoreVars>>

StoreClearPendingSpawn ==
    /\ pending' = clearPendingSpawn(pending)
    /\ lastCall' = [op |-> "clearPendingSpawn", arg |-> pending, committed |-> TRUE]
    /\ UNCHANGED <<sessions, lastWarn, notStoreVars>>

StoreClearPendingDelete ==
    /\ pending' = clearPendingDelete(pending)
    /\ lastCall' = [op |-> "clearPendingDelete", arg |-> pending, committed |-> TRUE]
    /\ UNCHANGED <<sessions, lastWarn, notStoreVars>>

StoreNext ==
    \/ StoreAddSession
    \/ StoreRemoveSession
    \/ StoreSetPendingSpawn
    \/ StoreSetPendingDelete
    \/ StoreClearPendingSpawn
    \/ StoreClearPendingDelete

StoreSpec == Init /\ [][StoreNext]_vars

(***************************************************************************)
(* Claims about the store.                                                 *)
(***************************************************************************)
\* C1: after any sequence of setPendingSpawn, setPendingDelete,
\* clearPendingSpawn and clearPendingDelete calls the pending_operations
\* table holds 0 or 1 rows, and a spawn and a delete are never both pending.
C1_AtMostOnePending ==
    /\ Cardinality(pending) <= 1
    /\ ~(getPendingSpawn(pending) # Null /\ getPendingDelete(pending) # Null)

\* C1 witness: a setPending call has just replaced a pending operation of
\* the other type.
C1_Witness ==
    /\ lastCall.op = "setPendingDelete"
    /\ lastCall.committed
    /\ lastWarn.kind = "delete-replaces-spawn"
    /\ Cardinality(pending) = 1

\* C2: once setPending(T, P) has committed, getPending(T) returns P and
\* getPending of the other type returns null, whatever the store held before.
C2_SetThenGet ==
    /\ (lastCall.op = "setPendingSpawn" /\ lastCall.committed) =>
            /\ getPendingSpawn(pending) = lastCall.arg
            /\ getPendingDelete(pending) = Null
    /\ (lastCall.op = "setPendingDelete" /\ lastCall.committed) =>
            /\ getPendingDelete(pending) = lastCall.arg
            /\ getPendingSpawn(pending) = Null
            /\ \A r \in pending : r.type = "delete" /\ r.branch = lastCall.arg.branch
                                  /\ r.path = lastCall.arg.path

\* C2 witness: setPendingSpawn(A) followed by setPendingDelete(B), B # A.
C2_Witness ==
    /\ lastCall.op = "setPendingDelete"
    /\ lastCall.committed
    /\ lastWarn.kind = "delete-replaces-spawn"
    /\ lastWarn.old # lastCall.arg.branch
    /\ getPendingDelete(pending) = lastCall.arg

\* C15: addSession is an upsert keyed by session id: after it has committed
\* there is exactly one row with that id, holding the values of this call,
\* rows with other ids are unchanged and so is the pending operation.
C15_AddSessionUpsert ==
    [][(lastCall'.op = "addSession" /\ lastCall'.committed) =>
        LET s == lastCall'.arg IN
        /\ {r \in sessions' : r.id = s.id} =
                {[id |-> s.id, branch |-> s.branch, path |-> s.path]}
        /\ {r \in sessions' : r.id # s.id} = {r \in sessions : r.id # s.id}
        /\ pending' = pending
    ]_vars

\* C15 witness: addSession was called for an id that had a row with another
\* branch, next to a row with another id.
C15_Witness ==
    /\ lastCall.op = "addSession"
    /\ lastCall.committed
    /\ \E r \in lastCall.prior : r.id = lastCall.arg.id /\ r.branch # lastCall.arg.branch
    /\ \E r \in lastCall.prior : r.id # lastCall.arg.id
    /\ Cardinality(sessions) = 2

\* C16: clearPendingSpawn removes a stored spawn and leaves a stored delete
\* as it is, clearPendingDelete removes a stored delete and leaves a stored
\* spawn as it is, and neither changes the sessions table.
C16_ClearOnlyMatchingType ==
    [][/\ lastCall'.op = "clearPendingSpawn" =>
            /\ getPendingSpawn(pending') = Null
            /\ getPendingDelete(pending') = getPendingDelete(pending)
            /\ getPendingDelete(pending) # Null => pending' = pending
            /\ sessions' = sessions
       /\ lastCall'.op = "clearPendingDelete" =>
            /\ getPendingDelete(pending') = Null
            /\ getPendingSpawn(pending') = getPendingSpawn(pending)
            /\ getPendingSpawn(pending) # Null => pending' = pending
            /\ sessions' = sessions
    ]_vars

\* C16 witness: clearPendingSpawn was called on a stored delete, which is
\* still stored, while a session existed.
C16_Witness ==
    /\ lastCall.op = "clearPendingSpawn"
    /\ getPendingDelete(lastCall.arg) # Null
    /\ pending = lastCall.arg
    /\ sessions # {}

\* C17: removeSession(b) deletes exactly the session rows whose branch is b;
\* the rows of other branches and the pending operation are unchanged, and
\* an empty b changes nothing.
C17_RemoveSessionByBranch ==
    [][lastCall'.op = "removeSession" =>
        LET b == lastCall'.arg IN
        /\ b # <<>> => sessions' = {r \in sessions : r.branch # b}
        /\ b # <<>> => ~\E r \in sessions' : r.branch = b
        /\ b = <<>> => sessions' = sessions
        /\ pending' = pending
    ]_vars

\* C17 witness: removeSession(b) deleted the rows of two sessions on branch b
\* and kept a session on another branch.
C17_Witness ==
    /\ lastCall.op = "removeSession"
    /\ Cardinality({r \in lastCall.prior : r.branch = lastCall.arg}) = 2
    /\ sessions # {}
    /\ sessions = {r \in lastCall.prior : r.branch # lastCall.arg}
    /\ pending # {}

\* C18: a setPendingSpawn or setPendingDelete call that supersedes a pending
\* operation logs a warning naming the branch of the superseded operation
\* and the branch of the new one.
C18_WarningNamesOldAndNew ==
    (lastCall.op \in {"setPendingSpawn", "setPendingDelete"} /\ lastCall.committed
        /\ lastWarn # NoWarn) =>
        /\ DOMAIN lastWarn = {"kind", "old", "new"}
        /\ lastWarn.new = lastCall.arg.branch

====
